---- MODULE Spec2Model ----
(***************************************************************************)
(* A state-machine model of the embassy_staff multi-agent system:          *)
(*   - the JSON storage service (services/embassy_storage.py),             *)
(*   - the Navigator and Archivist workers (agents/*.py),                  *)
(*   - the Orchestrator's coordination loop and end-to-end workflow        *)
(*     (agents/embassy_orchestrator_agent.py),                             *)
(*   - the Concierge conversation machine and its CLI driver               *)
(*     (agents/embassy_concierge_agent.py, main.py).                       *)
(* Dictionaries are functions from key strings to values; an absent key is *)
(* a key outside the DOMAIN.  Python's None for a string-valued slot is    *)
(* the string "None"; a response whose data is None carries NoData.        *)
(***************************************************************************)
EXTENDS Integers, Sequences, FiniteSets, TLC

\* Longest list of requested worker names explored.
MaxAgents == 3

None == "None"

\* The empty dictionary; also stands for data=None of a response, which
\* every reader in the code treats alike ("if result.data:").
NoData == [k \in {} |-> None]

\* dict.get(key, default)
Get(ctx, key, default) == IF key \in DOMAIN ctx THEN ctx[key] ELSE default

\* A one-entry dictionary, or the empty one when the value is absent.
Opt(key, value) == IF value = None THEN NoData ELSE (key :> value)

-----------------------------------------------------------------------------
(* BaseAgent                                                               *)

CreateResponse(agent, success, message, data, next_action) ==
    [agent_name |-> agent, success |-> success, message |-> message,
     data |-> data, next_action |-> next_action]

\* log_activity: the activity entry, rendered as "<agent>:<action>".
LogActivity(agent, action) == agent \o ":" \o action

\* What an awaited call produced: a returned response, or a raised exception.
Returned(resp, db, minted) ==
    [raised |-> FALSE, resp |-> resp, db |-> db, minted |-> minted]
Raised(db, minted) ==
    [raised |-> TRUE, resp |-> CreateResponse(None, FALSE, "exception", NoData, None),
     db |-> db, minted |-> minted]

-----------------------------------------------------------------------------
(* StorageService: one function per collection directory, from file name   *)
(* (item id) to the stored record.                                         *)

Collections == {"use_cases", "projects", "resource_matches", "chat_sessions"}

\* I/O faults the environment may inject into one awaited call:
\*   "write": opening/writing a file fails, "mkdir": creating a directory fails.
Faults == {"none", "write", "mkdir"}

\* A file name taken from the record's own id before the use case's.  C18
\* tells it from ItemId.
OwnIdFirst(item) ==
    IF Get(item, "match_id", None) # None THEN item["match_id"]
    ELSE IF Get(item, "project_id", None) # None THEN item["project_id"]
    ELSE IF Get(item, "use_case_id", None) # None THEN item["use_case_id"]
    ELSE Get(item, "session_id", None)

\* create_item's choice of the file name: the first id field that is set.
ItemId(item) ==
    IF Get(item, "use_case_id", None) # None THEN item["use_case_id"]
    ELSE IF Get(item, "project_id", None) # None THEN item["project_id"]
    ELSE IF Get(item, "match_id", None) # None THEN item["match_id"]
    ELSE Get(item, "session_id", None)

\* create_item: raises when no id field is set or the write fails;
\* otherwise writes <collection>/<item id>.json and returns the id.
CreateItem(db, collection, item, fault) ==
    IF ItemId(item) = None \/ fault = "write"
    THEN [raised |-> TRUE, id |-> None, db |-> db]
    ELSE [raised |-> FALSE, id |-> ItemId(item),
          db |-> [db EXCEPT ![collection] = (ItemId(item) :> item) @@ @]]

\* get_item returns None when the file does not exist: HasItem is that test,
\* GetItem the record read otherwise.
HasItem(db, collection, id) == id \in DOMAIN db[collection]
GetItem(db, collection, id) == db[collection][id]

\* An update that writes the file whether or not it exists.  C17 tells it
\* from UpdateItem.
UpsertItem(db, collection, id, item, fault) ==
    IF fault = "write"
    THEN [ok |-> FALSE, db |-> db]
    ELSE [ok |-> TRUE, db |-> [db EXCEPT ![collection] = (id :> item) @@ @]]

\* An update that writes the record over every file of the collection.
\* C21 tells it from UpdateItem.
UpdateWholeCollection(db, collection, id, item, fault) ==
    IF ~HasItem(db, collection, id) \/ fault = "write"
    THEN [ok |-> FALSE, db |-> db]
    ELSE [ok |-> TRUE, db |-> [db EXCEPT ![collection] = [k \in DOMAIN @ |-> item]]]

\* update_item: False (and no write) when the file does not exist or the
\* write fails (the exception is swallowed); True after overwriting it.
UpdateItem(db, collection, id, item, fault) ==
    IF ~HasItem(db, collection, id) \/ fault = "write"
    THEN [ok |-> FALSE, db |-> db]
    ELSE [ok |-> TRUE, db |-> [db EXCEPT ![collection] = (id :> item) @@ @]]

\* UseCase(title=..., created_by=...) with the given use_case_id.
NewUseCase(use_case_id, title, created_by) ==
    [use_case_id |-> use_case_id, title |-> title, status |-> "new",
     created_by |-> created_by]

EmptyDb ==
    [use_cases |-> NoData, projects |-> NoData, resource_matches |-> NoData,
     chat_sessions |-> NoData, workflow_logs |-> NoData, archives |-> NoData]

\* ChatSession(session_id=..., user_id=...); created_at defaults to
\* datetime.now(), a datetime without time zone.
NewChatSession(session_id, user_id) ==
    [session_id |-> session_id, user_id |-> user_id, current_use_case_id |-> None,
     current_project_id |-> None, conversation_history |-> <<>>, status |-> "active",
     created_at |-> "naive"]

-----------------------------------------------------------------------------
(* NavigatorAgent                                                          *)

\* ResourceMatch(use_case_id=..., matched_by=...), match_id a fresh uuid.
NewResourceMatch(fresh, use_case_id) ==
    [match_id |-> fresh, use_case_id |-> use_case_id, matched_by |-> "NavigatorAgent",
     status |-> "active"]

NavigatorSearchResources(ctx, db, fault, fresh) ==
    LET use_case_id == Get(ctx, "use_case_id", None)
        fail(msg) == Returned(CreateResponse("NavigatorAgent", FALSE, msg, NoData, "error"), db, 0)
    IN  IF use_case_id = None THEN fail("no_use_case_id")
        ELSE IF ~HasItem(db, "use_cases", use_case_id) THEN fail("Use case " \o use_case_id \o " not found")
        ELSE LET match == NewResourceMatch(fresh, use_case_id)
                 created == CreateItem(db, "resource_matches", match, fault)
             IN  IF created.raised
                 THEN Returned(CreateResponse("NavigatorAgent", FALSE, "store_failed",
                                              NoData, "error"), created.db, 1)
                 ELSE Returned(CreateResponse("NavigatorAgent", TRUE, "matched",
                          [match_id |-> match.match_id,
                           resource_matches |-> "matches:" \o use_case_id,
                           generated_bom |-> "bom:" \o use_case_id,
                           activity_log |-> LogActivity("NavigatorAgent", "resource_search_completed")],
                          "present_matches"), created.db, 1)

\* A BOM generated without looking the use case up.  C15 tells it from
\* NavigatorGenerateBom.
GenerateBomWithoutLookup(ctx, db) ==
    LET use_case_id == Get(ctx, "use_case_id", None)
    IN  Returned(CreateResponse("NavigatorAgent", TRUE, "bom_generated",
                 [use_case_id |-> use_case_id,
                  generated_bom |-> "bom:" \o use_case_id,
                  activity_log |-> LogActivity("NavigatorAgent", "bom_generated")],
                 "bom_complete"), db, 0)

NavigatorGenerateBom(ctx, db) ==
    LET use_case_id == Get(ctx, "use_case_id", None)
        fail(msg) == Returned(CreateResponse("NavigatorAgent", FALSE, msg, NoData, "error"), db, 0)
    IN  IF use_case_id = None THEN fail("no_use_case_id")
        ELSE IF ~HasItem(db, "use_cases", use_case_id) THEN fail("Use case " \o use_case_id \o " not found")
        ELSE Returned(CreateResponse("NavigatorAgent", TRUE, "bom_generated",
                 [use_case_id |-> use_case_id,
                  generated_bom |-> "bom:" \o use_case_id,
                  activity_log |-> LogActivity("NavigatorAgent", "bom_generated")],
                 "bom_complete"), db, 0)

NavigatorProcess(ctx, db, fault, fresh) ==
    LET action == Get(ctx, "action", "search_resources")
    IN  IF action = "search_resources" THEN NavigatorSearchResources(ctx, db, fault, fresh)
        ELSE IF action = "generate_bom" THEN NavigatorGenerateBom(ctx, db)
        ELSE Returned(CreateResponse("NavigatorAgent", FALSE, "unknown_action",
                                     NoData, "error"), db, 0)

-----------------------------------------------------------------------------
(* ArchivistAgent                                                          *)

\* _log_interaction: the entry is appended to the session read from storage
\* (or to a fresh one), then written back with update_item, whose result is
\* not looked at.
ArchivistLogInteraction(ctx, db, fault) ==
    LET session_id == Get(ctx, "session_id", None)
    IN  IF session_id = None
        THEN Returned(CreateResponse("ArchivistAgent", FALSE, "no_session_id", NoData, "error"), db, 0)
        ELSE LET session == IF HasItem(db, "chat_sessions", session_id)
                            THEN GetItem(db, "chat_sessions", session_id)
                            ELSE NewChatSession(session_id, Get(ctx, "user_id", "anonymous"))
                 log_entry == Get(ctx, "interaction", "unknown")
                 logged == [session EXCEPT
                              !.conversation_history = Append(@, log_entry),
                              !.current_use_case_id =
                                  IF Get(ctx, "use_case_id", None) # None
                                  THEN ctx["use_case_id"] ELSE @,
                              !.current_project_id =
                                  IF Get(ctx, "project_id", None) # None
                                  THEN ctx["project_id"] ELSE @]
                 updated == UpdateItem(db, "chat_sessions", session_id, logged, fault)
             IN  Returned(CreateResponse("ArchivistAgent", TRUE, "interaction_logged",
                     [session_id |-> session_id, log_entry |-> log_entry,
                      activity_log |-> LogActivity("ArchivistAgent", "interaction_logged")],
                     "logged"), updated.db, 0)

\* _log_workflow over the step results in ctx ("workflow_results", a
\* dictionary step name -> step data; a step's data is a non-empty
\* dictionary or None).
\* step_success is step_data.get('success', False) for a dictionary and True
\* for anything else.
StepSuccess(step_data) ==
    IF step_data = NoData THEN TRUE ELSE Get(step_data, "success", FALSE)

WorkflowSummary(use_case_id, project_id, workflow_results) ==
    [use_case_id |-> use_case_id, project_id |-> project_id,
     steps_completed |-> [s \in DOMAIN workflow_results |-> StepSuccess(workflow_results[s])],
     overall_success |-> \A s \in DOMAIN workflow_results : StepSuccess(workflow_results[s])]

ArchivistLogWorkflow(ctx, workflow_results, db, fault) ==
    LET use_case_id == Get(ctx, "use_case_id", None)
        project_id == Get(ctx, "project_id", None)
    IN  IF use_case_id = None
        THEN Returned(CreateResponse("ArchivistAgent", FALSE, "no_use_case_id", NoData, "error"), db, 0)
        ELSE LET summary == WorkflowSummary(use_case_id, project_id, workflow_results)
                 \* the project's activity log gets a "workflow_completed" entry
                 db1 == IF project_id # None /\ HasItem(db, "projects", project_id)
                        THEN LET project == GetItem(db, "projects", project_id)
                             IN  UpdateItem(db, "projects", project_id,
                                     [project EXCEPT !.agent_activity_log =
                                         Append(@, LogActivity("ArchivistAgent", "workflow_completed"))],
                                     fault).db
                        ELSE db
             IN  \* workflow_log_path.parent.mkdir() is outside the try block
                 IF fault = "mkdir" THEN Raised(db1, 0)
                 ELSE IF fault = "write"
                 THEN Returned(CreateResponse("ArchivistAgent", FALSE, "log_failed", NoData, "error"), db1, 0)
                 ELSE Returned(CreateResponse("ArchivistAgent", TRUE, "workflow_logged",
                          [workflow_summary |-> "summary:" \o use_case_id,
                           activity_log |-> LogActivity("ArchivistAgent", "workflow_logged")],
                          "workflow_logged"),
                          [db1 EXCEPT !.workflow_logs = (use_case_id :> summary) @@ @], 0)

\* _update_project_status: the project read from storage gets the new
\* phase, an activity entry and the archived/promoted flag, and is written
\* back with update_item, whose result is not looked at.
ArchivistUpdateProjectStatus(ctx, db, fault) ==
    LET project_id == Get(ctx, "project_id", None)
        new_status == Get(ctx, "status", None)
        fail(msg) == Returned(CreateResponse("ArchivistAgent", FALSE, msg, NoData, "error"), db, 0)
    IN  IF project_id = None \/ new_status = None THEN fail("project_id_and_status_required")
        ELSE IF ~HasItem(db, "projects", project_id)
        THEN fail("Project " \o project_id \o " not found")
        ELSE LET project == GetItem(db, "projects", project_id)
                 updated_project ==
                     [project EXCEPT
                        !.current_phase = new_status,
                        !.agent_activity_log =
                            Append(@, LogActivity("ArchivistAgent", "status_updated")),
                        !.archived = IF new_status = "archived" THEN TRUE ELSE @,
                        !.promoted_to_resource_catalog =
                            IF new_status # "archived" /\ new_status = "promoted" THEN TRUE ELSE @]
                 updated == UpdateItem(db, "projects", project_id, updated_project, fault)
             IN  Returned(CreateResponse("ArchivistAgent", TRUE, "status_updated",
                     [project_id |-> project_id, old_phase |-> project.current_phase,
                      new_phase |-> new_status,
                      activity_log |-> LogActivity("ArchivistAgent", "project_status_updated")],
                     "status_updated"), updated.db, 0)

\* _archive_session: the session read from storage is marked archived and
\* its archive summary is built; the summary's duration subtracts the
\* stored created_at from datetime.now(timezone.utc), which raises TypeError
\* when created_at carries no time zone.  The subtraction and the mkdir of
\* the archives directory are outside the try block; the summary is
\* written and the session updated inside it.
ArchivistArchiveSession(ctx, db, fault) ==
    LET session_id == Get(ctx, "session_id", None)
        fail(msg, d) == Returned(CreateResponse("ArchivistAgent", FALSE, msg, NoData, "error"), d, 0)
    IN  IF session_id = None THEN fail("no_session_id", db)
        ELSE IF ~HasItem(db, "chat_sessions", session_id)
        THEN fail("Session " \o session_id \o " not found", db)
        ELSE LET session == [GetItem(db, "chat_sessions", session_id) EXCEPT !.status = "archived"]
             IN  IF session.created_at = "naive" \/ fault = "mkdir" THEN Raised(db, 0)
                 ELSE IF fault = "write" THEN fail("archive_failed", db)
                 ELSE LET db1 == [db EXCEPT !.archives =
                                     (session_id :> [session_id |-> session_id,
                                                     user_id |-> session.user_id,
                                                     total_interactions |->
                                                         Len(session.conversation_history)]) @@ @]
                          updated == UpdateItem(db1, "chat_sessions", session_id, session, fault)
                      IN  Returned(CreateResponse("ArchivistAgent", TRUE, "session_archived",
                              [archive_summary |-> "archive:" \o session_id,
                               activity_log |-> LogActivity("ArchivistAgent", "session_archived")],
                              "archived"), updated.db, 0)

\* process: dispatch on context['action'], default 'log_interaction'.  The
\* contexts explored carry the actions log_interaction, log_workflow,
\* update_project_status and archive_session and actions the Archivist does
\* not know; the two read-only actions (retrieve_history, generate_report)
\* are not among them.
ArchivistProcess(ctx, workflow_results, db, fault) ==
    LET action == Get(ctx, "action", "log_interaction")
    IN  IF action = "log_interaction" THEN ArchivistLogInteraction(ctx, db, fault)
        ELSE IF action = "log_workflow" THEN ArchivistLogWorkflow(ctx, workflow_results, db, fault)
        ELSE IF action = "update_project_status" THEN ArchivistUpdateProjectStatus(ctx, db, fault)
        ELSE IF action = "archive_session" THEN ArchivistArchiveSession(ctx, db, fault)
        ELSE Returned(CreateResponse("ArchivistAgent", FALSE, "unknown_action",
                                     NoData, "error"), db, 0)

-----------------------------------------------------------------------------
(* OrchestratorAgent: coordination of several workers                      *)

AgentNames ==
    {"NavigatorAgent", "ResearchAgent", "ComplianceAgent", "CostAgent",
     "InfraAgent", "QAAgent", "ArchivistAgent"}

CriticalAgents == {"NavigatorAgent", "ArchivistAgent"}

\* priorities.get(x, 5)
Priority(x) ==
    CASE x = "NavigatorAgent" -> 1
      [] x = "ResearchAgent" -> 2
      [] x = "ArchivistAgent" -> 9
      [] x = "ComplianceAgent" -> 3
      [] x = "CostAgent" -> 4
      [] x = "InfraAgent" -> 5
      [] OTHER -> 5

\* sorted(required_agents, key=...): Python's sort is stable, so it equals
\* insertion of each element, in list order, behind every element whose key
\* is not larger.
RECURSIVE InsertByKey(_, _)
InsertByKey(sorted, x) ==
    IF sorted = <<>> THEN <<x>>
    ELSE IF Priority(Head(sorted)) <= Priority(x)
         THEN <<Head(sorted)>> \o InsertByKey(Tail(sorted), x)
         ELSE <<x>> \o sorted

RECURSIVE StableSort(_)
StableSort(agents) ==
    IF agents = <<>> THEN <<>>
    ELSE InsertByKey(StableSort(SubSeq(agents, 1, Len(agents) - 1)), agents[Len(agents)])

\* A sort by the same key that is not stable: an element is put in front of
\* the elements of equal key.  C5 tells it from DetermineAgentExecutionOrder.
RECURSIVE InsertBeforeEqualKey(_, _)
InsertBeforeEqualKey(sorted, x) ==
    IF sorted = <<>> THEN <<x>>
    ELSE IF Priority(Head(sorted)) < Priority(x)
         THEN <<Head(sorted)>> \o InsertBeforeEqualKey(Tail(sorted), x)
         ELSE <<x>> \o sorted

RECURSIVE UnstableSort(_)
UnstableSort(agents) ==
    IF agents = <<>> THEN <<>>
    ELSE InsertBeforeEqualKey(UnstableSort(SubSeq(agents, 1, Len(agents) - 1)),
                              agents[Len(agents)])

UnstableExecutionOrder(required) == UnstableSort(required)

DetermineAgentExecutionOrder(required) == StableSort(required)

\* A variant whose workers without an implementation answer with the
\* placeholder success.
ExecutePlaceholder(agent_name, ctx, db, fault, fresh) ==
    IF agent_name = "NavigatorAgent" THEN NavigatorProcess(ctx, db, fault, fresh)
    ELSE IF agent_name = "ArchivistAgent" THEN ArchivistProcess(ctx, NoData, db, fault)
    ELSE Returned(CreateResponse("OrchestratorAgent", TRUE, "placeholder",
                      [agent_name |-> agent_name, placeholder |-> "True"], None), db, 0)

\* _execute_agent: names outside agent_classes are refused; the two known
\* workers are constructed and given the shared context.
ExecuteAgent(agent_name, ctx, db, fault, fresh) ==
    IF agent_name \notin {"NavigatorAgent", "ArchivistAgent"}
    THEN Returned(CreateResponse("OrchestratorAgent", FALSE, "not_implemented",
                                 NoData, "error"), db, 0)
    ELSE IF agent_name = "NavigatorAgent" THEN NavigatorProcess(ctx, db, fault, fresh)
    ELSE IF agent_name = "ArchivistAgent" THEN ArchivistProcess(ctx, NoData, db, fault)
    ELSE Returned(CreateResponse("OrchestratorAgent", TRUE, "placeholder",
                      [agent_name |-> agent_name, placeholder |-> "True"], None), db, 0)

\* A context that a worker's data never reaches.  C6 tells it from
\* UpdateContext.
KeepContext(ctx, data) == ctx

\* context.update(result.data)
UpdateContext(ctx, data) ==
    [k \in DOMAIN ctx \cup DOMAIN data |-> IF k \in DOMAIN data THEN data[k] ELSE ctx[k]]

\* A loop body that leaves the loop at any returned failure, whatever the
\* worker.  C3 tells it from CoordinateStep.
CoordinateStepHaltingOnAnyFailure(agent_name, outcome, results, ctx) ==
    IF outcome.raised
    THEN [results |-> Append(results, [agent |-> agent_name, success |-> FALSE,
                                       message |-> "execution_failed", data |-> NoData]),
          context |-> ctx, halt |-> FALSE, escaped |-> FALSE]
    ELSE LET result == outcome.resp
             entry == [agent |-> agent_name, success |-> result.success,
                       message |-> result.message, data |-> result.data]
         IN  IF ~result.success
             THEN [results |-> Append(results, entry), context |-> ctx,
                   halt |-> TRUE, escaped |-> FALSE]
             ELSE [results |-> Append(results, entry),
                   context |-> IF result.data # NoData
                               THEN UpdateContext(ctx, result.data) ELSE ctx,
                   halt |-> FALSE, escaped |-> FALSE]

\* One pass of the loop body of _coordinate_agents, given what awaiting the
\* worker produced: the entry appended, the context afterwards, whether the
\* loop is left (break), and whether the exception leaves the method.
CoordinateStep(agent_name, outcome, results, ctx) ==
    IF outcome.raised
    THEN [results |-> Append(results, [agent |-> agent_name, success |-> FALSE,
                                       message |-> "execution_failed", data |-> NoData]),
          context |-> ctx, halt |-> FALSE, escaped |-> FALSE]
    ELSE LET result == outcome.resp
             entry == [agent |-> agent_name, success |-> result.success,
                       message |-> result.message, data |-> result.data]
         IN  IF ~result.success /\ agent_name \in CriticalAgents
             THEN [results |-> Append(results, entry), context |-> ctx,
                   halt |-> TRUE, escaped |-> FALSE]
             ELSE [results |-> Append(results, entry),
                   context |-> IF result.data # NoData
                               THEN UpdateContext(ctx, result.data) ELSE ctx,
                   halt |-> FALSE, escaped |-> FALSE]

SuccessfulAgents(results) == {i \in 1..Len(results) : results[i].success}

\* A threshold counted over the workers invoked instead of the workers
\* requested.  C4 tells it from OverallSuccess.
OverallSuccessOfInvoked(results, required) ==
    Cardinality(SuccessfulAgents(results)) >= Len(results) \div 2

\* len(successful_agents) >= len(required_agents) // 2
OverallSuccess(results, required) ==
    Cardinality(SuccessfulAgents(results)) >= Len(required) \div 2

CoordinationResponse(results, required) ==
    CreateResponse("OrchestratorAgent", OverallSuccess(results, required),
        "coordination_completed",
        [coordination_results |-> results,
         activity_log |-> LogActivity("OrchestratorAgent", "agent_coordination"),
         successful_agents |-> Cardinality(SuccessfulAgents(results)),
         total_agents |-> Len(required)],
        "coordination_complete")

-----------------------------------------------------------------------------
(* OrchestratorAgent: the end-to-end workflow                              *)

\* _analyze_intent
OrchestratorAnalyzeIntent(ctx, db) ==
    LET use_case_id == Get(ctx, "use_case_id", None)
        fail(msg) == Returned(CreateResponse("OrchestratorAgent", FALSE, msg, NoData, "error"), db, 0)
    IN  IF use_case_id = None THEN fail("no_use_case")
        ELSE IF ~HasItem(db, "use_cases", use_case_id) THEN fail("Use case " \o use_case_id \o " not found")
        ELSE Returned(CreateResponse("OrchestratorAgent", TRUE, "analysis_complete",
                 [use_case_id |-> use_case_id,
                  analysis |-> "analysis:" \o use_case_id,
                  activity_log |-> LogActivity("OrchestratorAgent", "intent_analysis"),
                  required_agents |-> <<"NavigatorAgent", "ArchivistAgent">>],
                 "spawn_agents"), db, 0)

\* _spawn_navigator: the Navigator is run on a search_resources context
\* inside try/except.
OrchestratorSpawnNavigator(ctx, db, fault, fresh) ==
    LET navigator_context ==
            ("action" :> "search_resources") @@ Opt("use_case_id", Get(ctx, "use_case_id", None))
                @@ Opt("analysis", Get(ctx, "analysis", None))
                @@ ("orchestrator_id" :> "OrchestratorAgent")
        outcome == NavigatorProcess(navigator_context, db, fault, fresh)
    IN  IF outcome.raised
        THEN Returned(CreateResponse("OrchestratorAgent", FALSE, "spawn_failed", NoData, "error"),
                      outcome.db, outcome.minted)
        ELSE IF outcome.resp.success
        THEN Returned(CreateResponse("OrchestratorAgent", TRUE, "navigator_completed",
                 [navigator_response |-> outcome.resp,
                  activity_log |-> LogActivity("OrchestratorAgent", "agent_spawned")],
                 "process_navigation_results"), outcome.db, outcome.minted)
        ELSE Returned(CreateResponse("OrchestratorAgent", FALSE, "navigator_failed", NoData, "error"),
                      outcome.db, outcome.minted)

\* TechHubProject(use_case_id=..., ...) with its first activity entry;
\* project_id is a fresh uuid.
NewProject(fresh, use_case) ==
    [project_id |-> fresh, use_case_id |-> use_case.use_case_id, title |-> use_case.title,
     current_phase |-> "resource_matching", created_by |-> use_case.created_by,
     agent_activity_log |-> <<LogActivity("OrchestratorAgent", "project_created")>>,
     archived |-> FALSE, promoted_to_resource_catalog |-> FALSE]

\* _create_project
OrchestratorCreateProject(ctx, db, fault, fresh) ==
    LET use_case_id == Get(ctx, "use_case_id", None)
        fail(msg, d, n) == Returned(CreateResponse("OrchestratorAgent", FALSE, msg, NoData, "error"), d, n)
    IN  IF use_case_id = None THEN fail("no_use_case_id", db, 0)
        ELSE IF ~HasItem(db, "use_cases", use_case_id) THEN fail("Use case " \o use_case_id \o " not found", db, 0)
        ELSE LET project == NewProject(fresh, GetItem(db, "use_cases", use_case_id))
                 created == CreateItem(db, "projects", project, fault)
             IN  IF created.raised THEN fail("create_failed", created.db, 1)
                 ELSE Returned(CreateResponse("OrchestratorAgent", TRUE, "project_created",
                          [project_id |-> project.project_id,
                           project |-> project,
                           activity_log |-> LogActivity("OrchestratorAgent", "project_created")],
                          "project_created"), created.db, 1)

\* process: dispatch on context['action'], default 'analyze_intent'.  The
\* coordinate_agents branch is the coordination run modelled step by step
\* below (CoordinateBegin .. CoordinateFinish); the contexts given to this
\* operator carry the other actions.
OrchestratorProcess(ctx, db, fault, fresh) ==
    LET action == Get(ctx, "action", "analyze_intent")
    IN  IF action = "analyze_intent" THEN OrchestratorAnalyzeIntent(ctx, db)
        ELSE IF action = "spawn_navigator" THEN OrchestratorSpawnNavigator(ctx, db, fault, fresh)
        ELSE IF action = "create_project" THEN OrchestratorCreateProject(ctx, db, fault, fresh)
        ELSE Returned(CreateResponse("OrchestratorAgent", FALSE, "unknown_action",
                                     NoData, "analyze_intent"), db, 0)

\* A workflow that goes on after a failed step.  C7 tells it from
\* WorkflowAfter.
WorkflowAfterIgnoringFailure(step, result) ==
    CASE step = "analyze_intent" -> "spawn_navigator"
      [] step = "spawn_navigator" -> "create_project"
      [] step = "create_project" -> "log_workflow"

\* orchestrate_full_workflow: where control goes after a step returned.
\* Analysis and navigation failures return at once; project creation is
\* followed by archival whatever its result.
WorkflowAfter(step, result) ==
    CASE step = "analyze_intent" -> IF ~result.success THEN "return" ELSE "spawn_navigator"
      [] step = "spawn_navigator" -> IF ~result.success THEN "return" ELSE "create_project"
      [] step = "create_project" -> "log_workflow"

\* What a step's data is when read as a dictionary ("x.data.get(...)").
NavigatorData(navigator_result) ==
    Get(navigator_result.data, "navigator_response", [data |-> NoData]).data

\* The context handed to the Archivist in step 4, and its workflow_results.
ArchiveContext(use_case_id, project_result) ==
    ("action" :> "log_workflow") @@ Opt("use_case_id", use_case_id)
        @@ Opt("project_id", IF project_result.success
                             THEN Get(project_result.data, "project_id", None) ELSE None)

WorkflowResults(analysis_result, navigator_result, project_result) ==
    [analysis |-> analysis_result.data, navigation |-> navigator_result.data,
     project_creation |-> project_result.data]

\* The aggregate response compiled after the archival step returned.
WorkflowSuccess(use_case_id, navigator_result, project_result) ==
    CreateResponse("OrchestratorAgent", TRUE, "workflow_successful",
        [use_case_id |-> use_case_id,
         project_id |-> IF project_result.success
                        THEN Get(project_result.data, "project_id", None) ELSE None,
         resource_matches |-> Get(NavigatorData(navigator_result), "resource_matches", "[]"),
         generated_bom |-> Get(NavigatorData(navigator_result), "generated_bom", "[]"),
         workflow_complete |-> TRUE],
        "present_results")

\* The handler of the outer "except Exception".
WorkflowFailure ==
    CreateResponse("OrchestratorAgent", FALSE, "workflow_failed", NoData, "error")

\* Step 4 and the return: the Archivist's response is not looked at; an
\* exception it raises reaches the outer handler.
WorkflowAfterArchive(archived, use_case_id, navigator_result, project_result) ==
    IF archived.raised THEN WorkflowFailure
    ELSE WorkflowSuccess(use_case_id, navigator_result, project_result)

-----------------------------------------------------------------------------
(* ConciergeAgent                                                          *)

\* The texts a user types (already stripped by the input loop), with the
\* results of str.upper(), str.lower() and len() on them.
LongText == "Build an Azure demo for chat support"

UserInputs == {"NEW", "new", "EXISTING", "guided", "2", "3", "YES", "hello", "report", LongText}

Upper(text) ==
    CASE text = "new" -> "NEW"
      [] text = "guided" -> "GUIDED"
      [] text = "hello" -> "HELLO"
      [] text = "report" -> "REPORT"
      [] text = LongText -> "BUILD AN AZURE DEMO FOR CHAT SUPPORT"
      [] OTHER -> text

Lower(text) ==
    CASE text = "NEW" -> "new"
      [] text = "EXISTING" -> "existing"
      [] text = "YES" -> "yes"
      [] text = LongText -> "build an azure demo for chat support"
      [] OTHER -> text

StrLen(text) ==
    CASE text \in {"2", "3"} -> 1
      [] text \in {"NEW", "new", "YES"} -> 3
      [] text = "hello" -> 5
      [] text \in {"guided", "report"} -> 6
      [] text = "EXISTING" -> 8
      [] text = LongText -> 36
      [] OTHER -> 0

\* "len(description.strip()) < 20"
MinDescriptionLength == 20

\* storage.get_user_projects(user_id): the projects the user created.
UserProjects(db, user_id) ==
    {id \in DOMAIN db.projects : db.projects[id].created_by = user_id}

\* _handle_greeting: a session is created when the context names none; the
\* create_item call is not inside a try block.
ConciergeGreeting(ctx, db, fault, fresh) ==
    LET greeting(session_id) ==
            CreateResponse("ConciergeAgent", TRUE, "greeting",
                [session_id |-> session_id, awaiting_input |-> "project_choice",
                 valid_options |-> "NEW,EXISTING"],
                "project_choice")
    IN  IF Get(ctx, "session_id", None) = None
        THEN LET session == NewChatSession(fresh, Get(ctx, "user_id", "anonymous"))
                 created == CreateItem(db, "chat_sessions", session, fault)
             IN  IF created.raised THEN Raised(created.db, 1)
                 ELSE Returned(greeting(session.session_id), created.db, 1)
        ELSE Returned(greeting(ctx["session_id"]), db, 0)

\* _present_intake_form
ConciergePresentIntakeForm(db) ==
    Returned(CreateResponse("ConciergeAgent", TRUE, "intake_form",
                 [form_fields |-> "intake_fields", intake_mode |-> "ready",
                  options |-> "guided,comprehensive,upload"],
                 "intake_form"), db, 0)

\* _handle_existing_project_selection
ConciergeExistingProjectSelection(ctx, db) ==
    IF UserProjects(db, Get(ctx, "user_id", "anonymous")) = {}
    THEN Returned(CreateResponse("ConciergeAgent", TRUE, "no_existing_projects",
                      [no_existing_projects |-> "True"], "handle_no_projects"), db, 0)
    ELSE Returned(CreateResponse("ConciergeAgent", TRUE, "project_list",
                      [projects |-> "projects", awaiting_selection |-> "True"],
                      "select_existing_project"), db, 0)

\* _handle_project_choice
ConciergeProjectChoice(ctx, db) ==
    LET choice == Upper(Get(ctx, "user_input", ""))
    IN  IF choice = "NEW" THEN ConciergePresentIntakeForm(db)
        ELSE IF choice = "EXISTING" THEN ConciergeExistingProjectSelection(ctx, db)
        ELSE Returned(CreateResponse("ConciergeAgent", FALSE, "choice_not_understood",
                          [valid_options |-> "NEW,EXISTING"], "project_choice"), db, 0)

\* self.intake_fields: the keys of the intake form template, in order.
IntakeFields ==
    <<"title", "description", "industry_vertical", "client_name", "client_context",
      "internal_contacts", "cloud_preference", "budget", "timeline", "known_dependencies",
      "compliance_requirements", "engagement_stage", "success_criteria",
      "resource_type_preference">>

\* _start_guided_intake: the first field, index 0, nothing collected yet.
ConciergeStartGuidedIntake(db) ==
    Returned(CreateResponse("ConciergeAgent", TRUE, "guided_field_1",
                 [guided_mode |-> "True", current_field |-> IntakeFields[1],
                  field_index |-> 0, collected_data |-> NoData],
                 "guided_intake_field"), db, 0)

\* _start_comprehensive_intake
ConciergeStartComprehensiveIntake(db) ==
    Returned(CreateResponse("ConciergeAgent", TRUE, "describe_project",
                 [comprehensive_mode |-> "True"], "process_comprehensive"), db, 0)

\* _process_comprehensive_input
ConciergeProcessComprehensiveInput(ctx, db, fault, fresh) ==
    LET description == Get(ctx, "user_input", "")
    IN  IF StrLen(description) < MinDescriptionLength
        THEN Returned(CreateResponse("ConciergeAgent", FALSE, "too_brief", NoData,
                                     "process_comprehensive"), db, 0)
        ELSE LET use_case == NewUseCase(fresh, description, Get(ctx, "user_id", "anonymous"))
                 created == CreateItem(db, "use_cases", use_case, fault)
             IN  IF created.raised
                 THEN Returned(CreateResponse("ConciergeAgent", FALSE, "trouble_processing",
                                              NoData, "intake_form"), created.db, 1)
                 ELSE Returned(CreateResponse("ConciergeAgent", TRUE, "extracted",
                          [use_case_id |-> use_case.use_case_id,
                           extracted_data |-> description,
                           awaiting_confirmation |-> "True"],
                          "confirm_extraction"), created.db, 1)

\* _handle_intake_form.  The class defines no _start_upload_intake, so the
\* third option raises AttributeError.
ConciergeIntakeForm(ctx, db, fault, fresh) ==
    LET user_input == Lower(Get(ctx, "user_input", ""))
    IN  IF user_input \in {"1", "guided", "guide", "one by one"}
        THEN ConciergeStartGuidedIntake(db)
        ELSE IF user_input \in {"2", "comprehensive", "description", "describe"}
        THEN ConciergeStartComprehensiveIntake(db)
        ELSE IF user_input \in {"3", "upload", "paste", "existing"}
        THEN Raised(db, 0)
        ELSE ConciergeProcessComprehensiveInput(ctx, db, fault, fresh)

\* _handle_intake_submission
ConciergeIntakeSubmission(ctx, db) ==
    IF Get(ctx, "use_case_id", None) = None
    THEN Returned(CreateResponse("ConciergeAgent", FALSE, "no_use_case", NoData, "greet"), db, 0)
    ELSE Returned(CreateResponse("ConciergeAgent", TRUE, "intake_complete",
                      [use_case_id |-> ctx["use_case_id"],
                       activity_log |-> LogActivity("ConciergeAgent", "intake_completed"),
                       ready_for_orchestration |-> "True"],
                      "orchestrate"), db, 0)

\* The action labels process has a branch for.
ConciergeActions == {"greet", "project_choice", "intake_form", "submit_intake", "existing_project"}

\* process: dispatch on context['action'], default 'greet'.  The class
\* defines no _handle_existing_project, so that branch raises AttributeError.
ConciergeProcess(ctx, db, fault, fresh) ==
    LET action == Get(ctx, "action", "greet")
    IN  IF action = "greet" THEN ConciergeGreeting(ctx, db, fault, fresh)
        ELSE IF action = "project_choice" THEN ConciergeProjectChoice(ctx, db)
        ELSE IF action = "intake_form" THEN ConciergeIntakeForm(ctx, db, fault, fresh)
        ELSE IF action = "submit_intake" THEN ConciergeIntakeSubmission(ctx, db)
        ELSE IF action = "existing_project" THEN Raised(db, 0)
        ELSE Returned(CreateResponse("ConciergeAgent", FALSE, "unknown_action",
                                     NoData, "greet"), db, 0)

-----------------------------------------------------------------------------
(* api.py: POST /intake/submit                                             *)

\* UseCase(created_by=user_id, **use_case_data): the id and the status are
\* the submitted ones when the data carries them, a fresh uuid and "new"
\* otherwise.
SubmittedUseCase(user_id, use_case_data, fresh) ==
    [NewUseCase(Get(use_case_data, "use_case_id", fresh), Get(use_case_data, "title", None),
                Get(use_case_data, "created_by", user_id))
        EXCEPT !.status = Get(use_case_data, "status", "new")]

\* submit_intake: a use case without title fails validation; that and a
\* failing create_item end in HTTPException(500).
SubmitIntake(user_id, use_case_data, db, fault, fresh) ==
    IF "title" \notin DOMAIN use_case_data THEN Raised(db, 0)
    ELSE LET use_case == SubmittedUseCase(user_id, use_case_data, fresh)
             minted == IF "use_case_id" \in DOMAIN use_case_data THEN 0 ELSE 1
             created == CreateItem(db, "use_cases", use_case, fault)
         IN  IF created.raised THEN Raised(created.db, minted)
             ELSE Returned(CreateResponse("api", TRUE, "intake_submitted",
                               [use_case_id |-> use_case.use_case_id], "orchestrate"),
                           created.db, minted)

-----------------------------------------------------------------------------
(* EmbassyStaffCLI: the driver of the conversation                         *)

\* _process_user_input: the action label put into the Concierge's context
\* for the awaited action of the last response and the text typed.
DriverAction(expected_action, user_input) ==
    IF expected_action \in {"project_choice", "intake_form", "guided_intake_field",
                            "process_comprehensive"}
    THEN expected_action
    ELSE IF expected_action = "confirm_extraction"
    THEN IF Upper(user_input) = "YES" THEN "submit_intake" ELSE "edit_extraction"
    ELSE IF expected_action = None THEN "process_input" ELSE expected_action

\* The context built for the Concierge: session, user, text, then the data
\* of the last response, then the action.
DriverContext(session_id, user_id, user_input, last_data, action) ==
    ("action" :> action)
        @@ UpdateContext(Opt("session_id", session_id) @@ ("user_id" :> user_id)
                            @@ ("user_input" :> user_input), last_data)

\* The log_interaction call that opens every turn.
DriverLogContext(session_id, user_input) ==
    ("action" :> "log_interaction") @@ Opt("session_id", session_id)
        @@ ("interaction" :> user_input)

-----------------------------------------------------------------------------
(* State                                                                   *)

VARIABLES
    db,                   \* the storage directory: collection -> id -> record
    next_id,              \* number of uuid4() values handed out so far
    pc,                   \* position of the coordination run
    required_agents,      \* context['required_agents']
    context,              \* the shared context dictionary of the run
    agent_order,          \* the execution order computed for the run
    agent_idx,            \* index into agent_order of the loop
    coordination_results, \* the entries appended so far
    in_progress,          \* indices of workers awaited and not yet finished
    given,                \* history: agent and context of each invocation
    coord_response,       \* the response returned by _coordinate_agents
    wf_pc,                \* position of orchestrate_full_workflow
    wf_runs,              \* number of workflow runs started
    wf_use_case_id,       \* its argument
    analysis_result,      \* the responses of its steps
    navigator_result,
    project_result,
    archive_outcome,      \* what awaiting the Archivist produced
    wf_steps,             \* history: the steps the run has performed
    wf_db0,               \* history: the storage when the run started
    wf_response,          \* the response the run returned
    cli_pc,               \* position of the CLI: init, prompt, orchestrating, crashed
    cli_session_id,       \* self.session_id
    cli_use_case_id,      \* self.use_case_id
    cli_project_id,       \* self.project_id
    last_response,        \* self.last_response: its next_action and data
    turns,                \* number of texts typed so far
    last_turn,            \* history: the last turn's awaited action, text and reply
    op,                   \* history: the last operation called, its context and result
    ops_done,             \* number of operations called so far
    tasks,                \* per concurrent session: position, session id, record read
    last_step,            \* history: the task that took the last step, the sessions before it
    request,              \* the use case handed to the Navigator and the Intent Analyzer
    findings              \* what the last operation on the request computed

coordVars == <<pc, required_agents, context, agent_order, agent_idx,
               coordination_results, in_progress, given, coord_response>>

wfVars == <<wf_pc, wf_runs, wf_use_case_id, analysis_result, navigator_result,
            project_result, archive_outcome, wf_steps, wf_db0, wf_response>>

cliVars == <<cli_pc, cli_session_id, cli_use_case_id, cli_project_id,
             last_response, turns, last_turn>>

opVars == <<op, ops_done>>

sessVars == <<tasks, last_step>>

navVars == <<request, findings>>

vars == <<db, next_id, coordVars, wfVars, cliVars, opVars, sessVars, navVars>>

NoResponse == CreateResponse(None, FALSE, None, NoData, None)

FreshId == "id" \o ToString(next_id + 1)

\* Lists of requested names, and the contexts a coordination run is given.
AgentLists == UNION {[1..n -> AgentNames] : n \in 0..MaxAgents}

CoordActions == {None, "coordinate_agents", "search_resources", "log_workflow"}

CoordContexts ==
    {Opt("action", a) @@ Opt("use_case_id", u) @@ Opt("session_id", s) :
        a \in CoordActions, u \in {None, "uc1", "uc9"}, s \in {None, "s1"}}

SeededDb ==
    [EmptyDb EXCEPT !.use_cases =
                        ("uc1" :> NewUseCase("uc1", "Azure chat demo", "demo_user"))
                            @@ ("uc2" :> NewUseCase("uc2", "Document pipeline", "demo_user")),
                    !.chat_sessions = ("s1" :> NewChatSession("s1", "demo_user"))]

\* No coordination run, no workflow run.
CoordIdle ==
    /\ pc = "idle"
    /\ required_agents = <<>>
    /\ context = NoData
    /\ agent_order = <<>>
    /\ agent_idx = 1
    /\ coordination_results = <<>>
    /\ in_progress = {}
    /\ given = <<>>
    /\ coord_response = NoResponse

NoOutcome == [raised |-> FALSE, resp |-> NoResponse]

WorkflowIdle ==
    /\ wf_pc = "idle"
    /\ wf_runs = 0
    /\ wf_use_case_id = None
    /\ analysis_result = NoResponse
    /\ navigator_result = NoResponse
    /\ project_result = NoResponse
    /\ archive_outcome = NoOutcome
    /\ wf_steps = <<>>
    /\ wf_db0 = EmptyDb
    /\ wf_response = NoResponse

NoTurn ==
    [awaited |-> None, input |-> None, action |-> None, raised |-> FALSE,
     next_action |-> None, created_use_case |-> FALSE,
     data_before |-> NoData, data |-> NoData]

\* No operation called yet.
NoOp ==
    [agent |-> None, ctx |-> NoData, fault |-> "none", raised |-> FALSE,
     resp |-> NoResponse, db_before |-> EmptyDb]

OpsIdle ==
    /\ op = NoOp
    /\ ops_done = 0

\* The two conversations that may be in flight at once.
Tasks == {"t1", "t2"}

\* A conversation that has not greeted yet; solo is the store the
\* conversation's operations would leave when run one after another with
\* nothing else running.
NoTask ==
    [pc |-> "start", session_id |-> None, local |-> NoData, done |-> 0, solo |-> EmptyDb]

NoStep == [task |-> None, before |-> NoData]

SessionsIdle ==
    /\ tasks = [t \in Tasks |-> NoTask]
    /\ last_step = NoStep

\* No request handed over.
NavigatorIdle ==
    /\ request = NoData
    /\ findings = NoData

CliIdle ==
    /\ cli_pc = "idle"
    /\ cli_session_id = None
    /\ cli_use_case_id = None
    /\ cli_project_id = None
    /\ last_response = [next_action |-> None, data |-> NoData]
    /\ turns = 0
    /\ last_turn = NoTurn

InitCoord ==
    /\ db = SeededDb
    /\ next_id = 0
    /\ WorkflowIdle
    /\ CliIdle
    /\ OpsIdle
    /\ SessionsIdle
    /\ NavigatorIdle
    /\ pc = "start"
    /\ required_agents \in AgentLists
    /\ context \in CoordContexts
    /\ agent_order = <<>>
    /\ agent_idx = 1
    /\ coordination_results = <<>>
    /\ in_progress = {}
    /\ given = <<>>
    /\ coord_response = NoResponse

\* "if not required_agents": the run is refused.
CoordinateNoAgents ==
    /\ pc = "start"
    /\ required_agents = <<>>
    /\ pc' = "done"
    /\ coord_response' = CreateResponse("OrchestratorAgent", FALSE, "no_agents", NoData, "error")
    /\ UNCHANGED <<opVars, sessVars, navVars, db, next_id, required_agents, context, agent_order, agent_idx,
                   coordination_results, in_progress, given, wfVars, cliVars>>

CoordinateBegin ==
    /\ pc = "start"
    /\ required_agents # <<>>
    /\ agent_order' = DetermineAgentExecutionOrder(required_agents)
    /\ pc' = "loop"
    /\ UNCHANGED <<opVars, sessVars, navVars, db, next_id, required_agents, context, agent_idx,
                   coordination_results, in_progress, given, coord_response, wfVars, cliVars>>

\* "result = await self._execute_agent(agent_name, context)": the call starts.
InvokeAgent ==
    /\ pc = "loop"
    /\ agent_idx <= Len(agent_order)
    /\ in_progress' = in_progress \cup {agent_idx}
    /\ given' = Append(given, [agent |-> agent_order[agent_idx], context |-> context])
    /\ pc' = "await"
    /\ UNCHANGED <<opVars, sessVars, navVars, db, next_id, required_agents, context, agent_order, agent_idx,
                   coordination_results, coord_response, wfVars, cliVars>>

\* The awaited call finishes (returning or raising) and the rest of the loop
\* body runs.
AgentFinishes ==
    /\ pc = "await"
    /\ \E fault \in Faults :
         LET agent_name == agent_order[agent_idx]
             outcome == ExecuteAgent(agent_name, context, db, fault, FreshId)
             step == CoordinateStep(agent_name, outcome, coordination_results, context)
         IN  /\ db' = outcome.db
             /\ next_id' = next_id + outcome.minted
             /\ in_progress' = in_progress \ {agent_idx}
             /\ coordination_results' = step.results
             /\ context' = step.context
             /\ agent_idx' = IF step.halt THEN agent_idx ELSE agent_idx + 1
             /\ pc' = IF step.escaped THEN "escaped"
                      ELSE IF step.halt THEN "finish" ELSE "loop"
    /\ UNCHANGED <<opVars, sessVars, navVars, required_agents, agent_order, given, coord_response, wfVars, cliVars>>

CoordinateFinish ==
    /\ \/ pc = "finish"
       \/ pc = "loop" /\ agent_idx > Len(agent_order)
    /\ pc' = "done"
    /\ coord_response' = CoordinationResponse(coordination_results, required_agents)
    /\ UNCHANGED <<opVars, sessVars, navVars, db, next_id, required_agents, context, agent_order, agent_idx,
                   coordination_results, in_progress, given, wfVars, cliVars>>

NextCoord ==
    \/ CoordinateNoAgents
    \/ CoordinateBegin
    \/ InvokeAgent
    \/ AgentFinishes
    \/ CoordinateFinish

SpecCoord == InitCoord /\ [][NextCoord]_vars

-----------------------------------------------------------------------------
(* orchestrate_full_workflow, one action per awaited step                  *)

\* Workflow runs started one after another.
MaxRuns == 2

InitWorkflow ==
    /\ db = SeededDb
    /\ next_id = 0
    /\ CoordIdle
    /\ WorkflowIdle
    /\ CliIdle
    /\ OpsIdle
    /\ SessionsIdle
    /\ NavigatorIdle

\* orchestrate_full_workflow(use_case_id) is called.
WorkflowStart ==
    /\ wf_pc \in {"idle", "done"}
    /\ wf_runs < MaxRuns
    /\ \E u \in {None, "uc1", "uc2", "uc9"} : wf_use_case_id' = u
    /\ wf_runs' = wf_runs + 1
    /\ wf_pc' = "analyze_intent"
    /\ analysis_result' = NoResponse
    /\ navigator_result' = NoResponse
    /\ project_result' = NoResponse
    /\ archive_outcome' = NoOutcome
    /\ wf_steps' = <<>>
    /\ wf_db0' = db
    /\ wf_response' = NoResponse
    /\ UNCHANGED <<opVars, sessVars, navVars, db, next_id, coordVars, cliVars>>

\* Step 1: process({'action': 'analyze_intent', ...})
WorkflowAnalyze ==
    /\ wf_pc = "analyze_intent"
    /\ LET outcome == OrchestratorAnalyzeIntent(Opt("use_case_id", wf_use_case_id), db)
           next == WorkflowAfter("analyze_intent", outcome.resp)
       IN  /\ analysis_result' = outcome.resp
           /\ wf_steps' = Append(wf_steps, "analyze_intent")
           /\ wf_pc' = IF next = "return" THEN "done" ELSE next
           /\ wf_response' = IF next = "return" THEN outcome.resp ELSE wf_response
    /\ UNCHANGED <<opVars, sessVars, navVars, db, next_id, coordVars, cliVars, wf_runs, wf_use_case_id,
                   navigator_result, project_result, archive_outcome, wf_db0>>

\* Step 2: process({'action': 'spawn_navigator', ...})
WorkflowSpawnNavigator ==
    /\ wf_pc = "spawn_navigator"
    /\ \E fault \in Faults :
         LET ctx == Opt("use_case_id", wf_use_case_id)
                        @@ Opt("analysis", Get(analysis_result.data, "analysis", None))
             outcome == OrchestratorSpawnNavigator(ctx, db, fault, FreshId)
             next == WorkflowAfter("spawn_navigator", outcome.resp)
         IN  /\ navigator_result' = outcome.resp
             /\ db' = outcome.db
             /\ next_id' = next_id + outcome.minted
             /\ wf_steps' = Append(wf_steps, "spawn_navigator")
             /\ wf_pc' = IF next = "return" THEN "done" ELSE next
             /\ wf_response' = IF next = "return" THEN outcome.resp ELSE wf_response
    /\ UNCHANGED <<opVars, sessVars, navVars, coordVars, cliVars, wf_runs, wf_use_case_id, analysis_result,
                   project_result, archive_outcome, wf_db0>>

\* Step 3: process({'action': 'create_project', ...})
WorkflowCreateProject ==
    /\ wf_pc = "create_project"
    /\ \E fault \in Faults :
         LET outcome == OrchestratorCreateProject(Opt("use_case_id", wf_use_case_id),
                                                  db, fault, FreshId)
         IN  /\ project_result' = outcome.resp
             /\ db' = outcome.db
             /\ next_id' = next_id + outcome.minted
             /\ wf_steps' = Append(wf_steps, "create_project")
             /\ wf_pc' = WorkflowAfter("create_project", outcome.resp)
    /\ UNCHANGED <<opVars, sessVars, navVars, coordVars, cliVars, wf_runs, wf_use_case_id, analysis_result,
                   navigator_result, archive_outcome, wf_db0, wf_response>>

\* Step 4: archivist.process({'action': 'log_workflow', ...}), then the return.
WorkflowArchive ==
    /\ wf_pc = "log_workflow"
    /\ \E fault \in Faults :
         LET outcome == ArchivistProcess(
                            ArchiveContext(wf_use_case_id, project_result),
                            WorkflowResults(analysis_result, navigator_result, project_result),
                            db, fault)
         IN  /\ archive_outcome' = [raised |-> outcome.raised, resp |-> outcome.resp]
             /\ db' = outcome.db
             /\ wf_steps' = Append(wf_steps, "log_workflow")
             /\ wf_response' = WorkflowAfterArchive(outcome, wf_use_case_id,
                                                    navigator_result, project_result)
    /\ wf_pc' = "done"
    /\ UNCHANGED <<opVars, sessVars, navVars, next_id, coordVars, cliVars, wf_runs, wf_use_case_id, analysis_result,
                   navigator_result, project_result, wf_db0>>

NextWorkflow ==
    \/ WorkflowStart
    \/ WorkflowAnalyze
    \/ WorkflowSpawnNavigator
    \/ WorkflowCreateProject
    \/ WorkflowArchive

SpecWorkflow == InitWorkflow /\ [][NextWorkflow]_vars

-----------------------------------------------------------------------------
(* EmbassyStaffCLI.run: the greeting, then one action per text typed       *)

\* Texts typed in one conversation.
MaxTurns == 4

UserId == "demo_user"

InitCLI ==
    /\ db = SeededDb
    /\ next_id = 0
    /\ CoordIdle
    /\ WorkflowIdle
    /\ cli_pc = "init"
    /\ cli_session_id = None
    /\ cli_use_case_id = None
    /\ cli_project_id = None
    /\ last_response = [next_action |-> None, data |-> NoData]
    /\ turns = 0
    /\ last_turn = NoTurn
    /\ OpsIdle
    /\ SessionsIdle
    /\ NavigatorIdle

\* run(): the first greeting, outside the loop's try block.
CliGreet ==
    /\ cli_pc = "init"
    /\ \E fault \in {"none", "write"} :
         LET outcome == ConciergeProcess(("user_name" :> "Demo User") @@ ("user_id" :> UserId),
                                         db, fault, FreshId)
         IN  /\ db' = outcome.db
             /\ next_id' = next_id + outcome.minted
             /\ IF outcome.raised
                THEN /\ cli_pc' = "crashed"
                     /\ UNCHANGED <<cli_session_id, last_response>>
                ELSE /\ cli_pc' = "prompt"
                     /\ cli_session_id' = Get(outcome.resp.data, "session_id", None)
                     /\ last_response' = [next_action |-> outcome.resp.next_action,
                                          data |-> outcome.resp.data]
    /\ UNCHANGED <<opVars, sessVars, navVars, coordVars, wfVars, cli_use_case_id, cli_project_id, turns, last_turn>>

\* _handle_orchestration begins: orchestrate_full_workflow(self.use_case_id).
StartOrchestration(store) ==
    /\ cli_pc' = "orchestrating"
    /\ wf_pc' = "analyze_intent"
    /\ wf_use_case_id' = cli_use_case_id
    /\ analysis_result' = NoResponse
    /\ navigator_result' = NoResponse
    /\ project_result' = NoResponse
    /\ archive_outcome' = NoOutcome
    /\ wf_steps' = <<>>
    /\ wf_db0' = store
    /\ wf_response' = NoResponse
    /\ UNCHANGED wf_runs

\* _process_user_input for a text typed while the Concierge is awaited.
CliTurn ==
    /\ cli_pc = "prompt"
    /\ turns < MaxTurns
    /\ last_response.next_action # "handle_resource_selection"
    /\ \E user_input \in UserInputs, log_fault, fault \in {"none", "write"} :
         LET logged == ArchivistProcess(DriverLogContext(cli_session_id, user_input),
                                        NoData, db, log_fault)
             expected_action == last_response.next_action
             action == DriverAction(expected_action, user_input)
             ctx == DriverContext(cli_session_id, UserId, user_input, last_response.data, action)
             outcome == ConciergeProcess(ctx, logged.db, fault, FreshId)
             response == outcome.resp
             orchestrate ==
                 /\ ~outcome.raised
                 /\ response.next_action = "orchestrate"
                 /\ \/ action = "submit_intake"
                    \/ Get(response.data, "ready_for_orchestration", None) # None
             \* the YES branch returns before the response is stored
             stored == ~outcome.raised /\ ~(action = "submit_intake" /\ orchestrate)
         IN  /\ db' = outcome.db
             /\ next_id' = next_id + outcome.minted
             /\ turns' = turns + 1
             /\ last_turn' = [awaited |-> expected_action, input |-> user_input,
                              action |-> action, raised |-> outcome.raised,
                              next_action |-> response.next_action,
                              created_use_case |->
                                  DOMAIN outcome.db.use_cases # DOMAIN db.use_cases,
                              data_before |-> last_response.data,
                              data |-> response.data]
             /\ last_response' = IF stored
                                 THEN [next_action |-> response.next_action,
                                       data |-> response.data]
                                 ELSE last_response
             /\ cli_use_case_id' = IF stored /\ Get(response.data, "use_case_id", None) # None
                                   THEN response.data["use_case_id"] ELSE cli_use_case_id
             /\ cli_project_id' = IF stored /\ Get(response.data, "project_id", None) # None
                                  THEN response.data["project_id"] ELSE cli_project_id
             /\ IF orchestrate
                THEN StartOrchestration(outcome.db)
                ELSE UNCHANGED <<cli_pc, wfVars>>
    /\ UNCHANGED <<opVars, sessVars, navVars, coordVars, cli_session_id>>

\* The workflow_results of the CLI's own log_workflow call are the entries
\* of the workflow's data, none of which is a dictionary.
NonDictSteps(data) == [k \in DOMAIN data |-> NoData]

\* _handle_orchestration ends: results are presented and the run is logged,
\* or the failure is printed; an exception is caught and printed.
CliOrchestrationDone ==
    /\ cli_pc = "orchestrating"
    /\ wf_pc = "done"
    /\ cli_pc' = "prompt"
    /\ IF wf_response.success
       THEN \E fault \in Faults :
              LET project_id == Get(wf_response.data, "project_id", None)
                  logged == ArchivistProcess(
                                ("action" :> "log_workflow")
                                    @@ Opt("use_case_id", cli_use_case_id)
                                    @@ Opt("project_id", project_id),
                                NonDictSteps(wf_response.data), db, fault)
              IN  /\ cli_project_id' = project_id
                  /\ last_response' =
                        [next_action |-> "handle_resource_selection",
                         data |-> [resource_matches |-> wf_response.data.resource_matches,
                                   generated_bom |-> wf_response.data.generated_bom]]
                  /\ db' = logged.db
       ELSE UNCHANGED <<db, cli_project_id, last_response>>
    /\ UNCHANGED <<opVars, sessVars, navVars, next_id, coordVars, wfVars, cli_session_id, cli_use_case_id, turns, last_turn>>

\* _handle_resource_action for a text typed after the results: 'report'
\* prints a report, 'new' greets again in the same session, anything else
\* does nothing.
CliResourceAction ==
    /\ cli_pc = "prompt"
    /\ turns < MaxTurns
    /\ last_response.next_action = "handle_resource_selection"
    /\ \E user_input \in UserInputs, log_fault \in {"none", "write"} :
         LET logged == ArchivistProcess(DriverLogContext(cli_session_id, user_input),
                                        NoData, db, log_fault)
             greeted == ConciergeProcess(
                            ("action" :> "greet") @@ ("user_name" :> "Demo User")
                                @@ ("user_id" :> UserId) @@ Opt("session_id", cli_session_id),
                            logged.db, "none", FreshId)
         IN  /\ turns' = turns + 1
             /\ last_turn' = [awaited |-> "handle_resource_selection", input |-> user_input,
                              action |-> None, raised |-> FALSE, next_action |-> None,
                              created_use_case |-> FALSE,
                              data_before |-> last_response.data, data |-> NoData]
             /\ IF Lower(user_input) = "new"
                THEN /\ db' = greeted.db
                     /\ next_id' = next_id + greeted.minted
                     /\ cli_use_case_id' = None
                     /\ cli_project_id' = None
                     /\ last_response' = [next_action |-> greeted.resp.next_action,
                                          data |-> greeted.resp.data]
                ELSE /\ db' = logged.db
                     /\ UNCHANGED <<next_id, cli_use_case_id, cli_project_id, last_response>>
    /\ UNCHANGED <<opVars, sessVars, navVars, coordVars, wfVars, cli_pc, cli_session_id>>

NextCLI ==
    \/ CliGreet
    \/ CliTurn
    \/ CliResourceAction
    \/ WorkflowAnalyze
    \/ WorkflowSpawnNavigator
    \/ WorkflowCreateProject
    \/ WorkflowArchive
    \/ CliOrchestrationDone

SpecCLI == InitCLI /\ [][NextCLI]_vars

-----------------------------------------------------------------------------
(* The public operations called one after another on one store            *)

\* Operations called in one run.
MaxOps == 3

UseCaseIds == {None, "uc1", "uc9"}
SessionIds == {None, "s1", "s9"}
\* "uc1" is the file name a project of use case uc1 is stored under, "id1"
\* the first uuid handed out, "p9" an id nothing was ever given.
ProjectIds == {None, "uc1", "id1", "p9"}

NavigatorContexts ==
    {Opt("action", a) @@ Opt("use_case_id", u) :
        a \in {None, "search_resources", "generate_bom", "coordinate_agents"}, u \in UseCaseIds}

OrchestratorContexts ==
    {Opt("action", a) @@ Opt("use_case_id", u) :
        a \in {None, "analyze_intent", "spawn_navigator", "create_project", "deploy"},
        u \in UseCaseIds}

ArchivistContexts ==
    {("action" :> "log_interaction") @@ Opt("session_id", x) @@ ("interaction" :> "hello") :
        x \in SessionIds}
    \cup {("action" :> "archive_session") @@ Opt("session_id", x) : x \in SessionIds}
    \cup {("action" :> "update_project_status") @@ Opt("project_id", x)
              @@ ("status" :> "promoted") : x \in ProjectIds}
    \cup {("action" :> "log_workflow") @@ Opt("use_case_id", u) : u \in UseCaseIds}
    \cup {("action" :> "purge")}

ConciergeContexts ==
    {Opt("action", a) @@ Opt("session_id", x) @@ ("user_id" :> UserId) :
        a \in {None, "greet", "existing_project", "guided_intake_field"}, x \in {None, "s1"}}
    \cup {("action" :> a) @@ ("user_input" :> t) @@ ("user_id" :> UserId) :
            a \in {"project_choice", "intake_form"}, t \in {"NEW", "3", "hello", LongText}}
    \cup {("action" :> "submit_intake") @@ Opt("use_case_id", u) : u \in UseCaseIds}

\* The use_case_data of an intake request: with or without a title, an id
\* of its own and a status.
IntakeData ==
    {Opt("title", t) @@ Opt("use_case_id", u) @@ Opt("status", st) :
        t \in {None, "Azure chat demo"}, u \in {None, "uc1"}, st \in {None, "new", "matched"}}

InitOps ==
    /\ db = SeededDb
    /\ next_id = 0
    /\ CoordIdle
    /\ WorkflowIdle
    /\ CliIdle
    /\ OpsIdle
    /\ SessionsIdle
    /\ NavigatorIdle

\* The operation's outcome becomes the store, and the call is recorded.
Called(agent, ctx, fault, outcome) ==
    /\ ops_done < MaxOps
    /\ ops_done' = ops_done + 1
    /\ db' = outcome.db
    /\ next_id' = next_id + outcome.minted
    /\ op' = [agent |-> agent, ctx |-> ctx, fault |-> fault, raised |-> outcome.raised,
              resp |-> outcome.resp, db_before |-> db]
    /\ UNCHANGED <<coordVars, wfVars, cliVars, sessVars, navVars>>

OpNavigator ==
    \E ctx \in NavigatorContexts, fault \in Faults :
        Called("NavigatorAgent", ctx, fault, NavigatorProcess(ctx, db, fault, FreshId))

OpOrchestrator ==
    \E ctx \in OrchestratorContexts, fault \in Faults :
        Called("OrchestratorAgent", ctx, fault, OrchestratorProcess(ctx, db, fault, FreshId))

OpArchivist ==
    \E ctx \in ArchivistContexts, fault \in Faults :
        Called("ArchivistAgent", ctx, fault, ArchivistProcess(ctx, NoData, db, fault))

OpConcierge ==
    \E ctx \in ConciergeContexts, fault \in Faults :
        Called("ConciergeAgent", ctx, fault, ConciergeProcess(ctx, db, fault, FreshId))

OpSubmitIntake ==
    \E data \in IntakeData, fault \in Faults :
        Called("api", ("action" :> "submit_intake") @@ data, fault,
               SubmitIntake(UserId, data, db, fault, FreshId))

NextOps ==
    \/ OpNavigator
    \/ OpOrchestrator
    \/ OpArchivist
    \/ OpConcierge
    \/ OpSubmitIntake

SpecOps == InitOps /\ [][NextOps]_vars

-----------------------------------------------------------------------------
(* update_project_status called again and again on one stored project      *)

Statuses == {None, "resource_matching", "in_progress", "archived", "promoted"}

StatusContexts ==
    {("action" :> "update_project_status") @@ Opt("project_id", x) @@ Opt("status", st) :
        x \in {None, "uc1", "p9"}, st \in Statuses}

\* The store after _create_project has created the project of use case uc1.
InitProjects ==
    /\ db = CreateItem(SeededDb, "projects",
                       NewProject("id1", GetItem(SeededDb, "use_cases", "uc1")), "none").db
    /\ next_id = 1
    /\ CoordIdle
    /\ WorkflowIdle
    /\ CliIdle
    /\ OpsIdle
    /\ SessionsIdle
    /\ NavigatorIdle

OpUpdateStatus ==
    \E ctx \in StatusContexts, fault \in Faults :
        Called("ArchivistAgent", ctx, fault, ArchivistProcess(ctx, NoData, db, fault))

NextProjects == OpUpdateStatus

SpecProjects == InitProjects /\ [][NextProjects]_vars

-----------------------------------------------------------------------------
(* StorageService called directly                                          *)

\* The id field a record type declares for itself.
OwnIdField(collection) ==
    IF collection = "use_cases" THEN "use_case_id"
    ELSE IF collection = "projects" THEN "project_id"
    ELSE IF collection = "resource_matches" THEN "match_id"
    ELSE "session_id"

\* Records handed to the store: two of each type, and a dict that has no id
\* field at all.
SampleRecords(collection) ==
    IF collection = "use_cases"
    THEN {NewUseCase(u, "Azure chat demo", UserId) : u \in {"uc1", "uc3"}}
    ELSE IF collection = "projects"
    THEN {NewProject(p, NewUseCase(u, "Azure chat demo", UserId)) :
             p \in {"p1", "p2"}, u \in {"uc1"}}
    ELSE IF collection = "resource_matches"
    THEN {NewResourceMatch(m, u) : m \in {"m1", "m2"}, u \in {"uc1"}}
    ELSE {[NewChatSession(x, UserId) EXCEPT !.status = st] :
             x \in {"s1", "s2"}, st \in {"active", "completed"}}

RecordWithoutId == [title |-> "Azure chat demo"]

\* File names asked for: ids of use cases, projects, matches and sessions,
\* with and without a file.
SampleIds == {"uc1", "uc3", "p1", "m1", "s1", "s2"}

InitStorage ==
    /\ db = SeededDb
    /\ next_id = 0
    /\ CoordIdle
    /\ WorkflowIdle
    /\ CliIdle
    /\ OpsIdle
    /\ SessionsIdle
    /\ NavigatorIdle

StorageCalled(action, collection, id, item, fault, raised, returned, store) ==
    /\ ops_done < MaxOps
    /\ ops_done' = ops_done + 1
    /\ db' = store
    /\ op' = [agent |-> "StorageService",
              ctx |-> ("action" :> action) @@ ("collection" :> collection) @@ ("item_id" :> id),
              fault |-> fault, raised |-> raised, resp |-> NoResponse, db_before |-> db,
              item |-> item, returned |-> returned]
    /\ UNCHANGED <<next_id, coordVars, wfVars, cliVars, sessVars, navVars>>

\* create_item(collection, item)
StorageCreate ==
    \E collection \in Collections, fault \in Faults :
        \E item \in SampleRecords(collection) \cup {RecordWithoutId} :
            LET created == CreateItem(db, collection, item, fault)
            IN  StorageCalled("create_item", collection, None, item, fault,
                              created.raised, created.id, created.db)

\* update_item(collection, item_id, item)
StorageUpdate ==
    \E collection \in Collections, id \in SampleIds, fault \in Faults :
        \E item \in SampleRecords(collection) :
            LET updated == UpdateItem(db, collection, id, item, fault)
            IN  StorageCalled("update_item", collection, id, item, fault,
                              FALSE, IF updated.ok THEN "True" ELSE "False", updated.db)

NextStorage ==
    \/ StorageCreate
    \/ StorageUpdate

SpecStorage == InitStorage /\ [][NextStorage]_vars

-----------------------------------------------------------------------------
(* Two conversations in flight: a coroutine may be suspended at each      *)
(* awaited storage call, so a step runs from one storage call to the next *)

\* Operations a conversation runs after its greeting.
MaxSessionOps == 2

\* The interaction a conversation logs as its n-th operation.
LogEntry(t, n) == t \o ":" \o ToString(n)

LogContext(t) ==
    ("action" :> "log_interaction") @@ ("session_id" :> tasks[t].session_id)
        @@ ("interaction" :> LogEntry(t, tasks[t].done + 1))

InitSessions ==
    /\ db = SeededDb
    /\ next_id = 0
    /\ CoordIdle
    /\ WorkflowIdle
    /\ CliIdle
    /\ OpsIdle
    /\ SessionsIdle
    /\ NavigatorIdle

TaskStep(t, task, store, minted) ==
    /\ tasks' = [tasks EXCEPT ![t] = task]
    /\ db' = store
    /\ next_id' = next_id + minted
    /\ last_step' = [task |-> t, before |-> db.chat_sessions]
    /\ UNCHANGED <<coordVars, wfVars, cliVars, opVars, navVars>>

\* _handle_greeting with no session_id: ChatSession(user_id=...), then
\* await storage.create_item.
TaskGreet ==
    \E t \in Tasks, fault \in Faults :
        /\ tasks[t].pc = "start"
        /\ LET ctx == ("action" :> "greet") @@ ("user_id" :> t)
               outcome == ConciergeGreeting(ctx, db, fault, FreshId)
               alone == ConciergeGreeting(ctx, tasks[t].solo, fault, FreshId)
           IN  TaskStep(t,
                        IF outcome.raised
                        THEN [tasks[t] EXCEPT !.pc = "failed"]
                        ELSE [tasks[t] EXCEPT !.pc = "idle",
                                              !.session_id = outcome.resp.data.session_id,
                                              !.solo = alone.db],
                        outcome.db, outcome.minted)

\* _log_interaction up to its first storage call: await storage.get_item,
\* a new ChatSession when nothing is stored.
TaskLogRead ==
    \E t \in Tasks :
        /\ tasks[t].pc = "idle"
        /\ tasks[t].done < MaxSessionOps
        /\ LET session_id == tasks[t].session_id
               session == IF HasItem(db, "chat_sessions", session_id)
                          THEN GetItem(db, "chat_sessions", session_id)
                          ELSE NewChatSession(session_id, "anonymous")
           IN  TaskStep(t, [tasks[t] EXCEPT !.pc = "logging", !.local = session], db, 0)

\* _log_interaction from there on: the entry is appended to the session
\* that was read, then await storage.update_item.
TaskLogWrite ==
    \E t \in Tasks, fault \in Faults :
        /\ tasks[t].pc = "logging"
        /\ LET ctx == LogContext(t)
               logged == [tasks[t].local EXCEPT
                            !.conversation_history = Append(@, ctx["interaction"])]
               updated == UpdateItem(db, "chat_sessions", ctx["session_id"], logged, fault)
               alone == ArchivistLogInteraction(ctx, tasks[t].solo, fault)
           IN  TaskStep(t,
                        [tasks[t] EXCEPT !.pc = "idle", !.local = NoData,
                                         !.done = @ + 1, !.solo = alone.db],
                        updated.db, 0)

\* _archive_session: await storage.get_item, and what follows it.
TaskArchive ==
    \E t \in Tasks, fault \in Faults :
        /\ tasks[t].pc = "idle"
        /\ tasks[t].done < MaxSessionOps
        /\ LET ctx == ("action" :> "archive_session") @@ ("session_id" :> tasks[t].session_id)
               outcome == ArchivistArchiveSession(ctx, db, fault)
               alone == ArchivistArchiveSession(ctx, tasks[t].solo, fault)
           IN  TaskStep(t, [tasks[t] EXCEPT !.done = @ + 1, !.solo = alone.db],
                        outcome.db, 0)

NextSessions ==
    \/ TaskGreet
    \/ TaskLogRead
    \/ TaskLogWrite
    \/ TaskArchive

SpecSessions == InitSessions /\ [][NextSessions]_vars

-----------------------------------------------------------------------------
(* Python str and float, as far as the Navigator and the Intent Analyzer   *)
(* use them                                                                *)

UpperCaseLetters == "ABCDEFGHIJKLMNOPQRSTUVWXYZ"
LowerCaseLetters == "abcdefghijklmnopqrstuvwxyz"
Digits == "0123456789"

CharAt(text, i) == SubSeq(text, i, i)

\* needle in text
Contains(text, needle) ==
    \E i \in 1..(Len(text) - Len(needle) + 1) : SubSeq(text, i, i + Len(needle) - 1) = needle

Chars(text) == {CharAt(text, i) : i \in 1..Len(text)}

UpperCaseSet == Chars(UpperCaseLetters)

LowerChar(c) ==
    IF c \in UpperCaseSet
    THEN CharAt(LowerCaseLetters,
                CHOOSE i \in 1..Len(UpperCaseLetters) : CharAt(UpperCaseLetters, i) = c)
    ELSE c

\* str.lower()
RECURSIVE LowerBetween(_, _, _)
LowerBetween(text, i, j) ==
    IF i > j THEN ""
    ELSE IF i = j THEN LowerChar(CharAt(text, i))
    ELSE LowerBetween(text, i, (i + j) \div 2) \o LowerBetween(text, (i + j) \div 2 + 1, j)

ToLower(text) == LowerBetween(text, 1, Len(text))

\* The maximal runs of characters of text that are (inside = TRUE) or are
\* not (inside = FALSE) among chars, in order: a run starts at a kept
\* character that follows none, and goes on to the last kept character
\* before the next one dropped.
Runs(text, chars, inside) ==
    LET kept == {i \in 1..Len(text) : (CharAt(text, i) \in chars) = inside}
        starts == {i \in kept : i - 1 \notin kept}
        end(i) == CHOOSE j \in i..Len(text) : (i..j) \subseteq kept /\ j + 1 \notin kept
        start(k) == CHOOSE i \in starts : Cardinality({j \in starts : j < i}) = k - 1
    IN  SubSeq([k \in 1..Cardinality(starts) |-> SubSeq(text, start(k), end(start(k)))],
               1, Cardinality(starts))

\* str.split(), for texts whose only whitespace is the space
Split(text) == Runs(text, {" "}, FALSE)

\* re.findall(r'\b\w+\b', text)
WordChars == Chars(UpperCaseLetters \o LowerCaseLetters \o Digits \o "_")

RegexWords(text) == Runs(text, WordChars, TRUE)

Range(seq) == {seq[i] : i \in 1..Len(seq)}

\* A float of the interval [0, 2) is the sequence of its binary digits: the
\* units digit, then FloatDigits - 1 digits after the point.  Every double
\* met here is at least 0.02, so its 53 significant digits end within them.
FloatDigits == 60
Significand == 53

FloatZero == SubSeq([i \in 1..FloatDigits |-> 0], 1, FloatDigits)

\* a + b without rounding: a carry enters digit i when a digit below it
\* holds 1 in both a and b and every digit between holds 1 in one of them.
AddExact(a, b) ==
    LET both == {j \in 1..Len(a) : a[j] + b[j] = 2}
        carry(i) == \E j \in both : j > i /\ \A k \in (i + 1)..(j - 1) : a[k] + b[k] = 1
    IN  SubSeq([i \in 1..Len(a) |-> (a[i] + b[i] + (IF carry(i) THEN 1 ELSE 0)) % 2],
               1, Len(a))

\* Round to nearest, ties to even, at 53 significant digits.
RoundToDouble(x) ==
    IF \A i \in 1..Len(x) : x[i] = 0 THEN x
    ELSE LET lead == CHOOSE i \in 1..Len(x) : x[i] = 1 /\ \A j \in 1..(i - 1) : x[j] = 0
             last == lead + Significand - 1
         IN  IF last >= Len(x) THEN x
             ELSE LET kept == SubSeq([i \in 1..Len(x) |-> IF i <= last THEN x[i] ELSE 0],
                                     1, Len(x))
                      ulp == SubSeq([i \in 1..Len(x) |-> IF i = last THEN 1 ELSE 0], 1, Len(x))
                      half == x[last + 1] = 1
                      above == \E i \in (last + 2)..Len(x) : x[i] = 1
                  IN  IF half /\ (above \/ x[last] = 1) THEN AddExact(kept, ulp) ELSE kept

\* a + b
FloatAdd(a, b) == RoundToDouble(AddExact(a, b))

\* n * a without rounding, for 0 <= n < 32 and n * a < 2: a doubled k times
\* is a moved k digits up, and the product is the sum of the doublings at
\* the binary digits of n.
Doubled(a, k) == SubSeq([i \in 1..Len(a) |-> IF i + k <= Len(a) THEN a[i + k] ELSE 0], 1, Len(a))

TimesExact(n, a) ==
    LET plus(sum, k) == IF (n \div (2 ^ k)) % 2 = 0 THEN sum
                        ELSE IF sum = FloatZero THEN Doubled(a, k)
                        ELSE AddExact(sum, Doubled(a, k))
    IN  plus(plus(plus(plus(plus(FloatZero, 0), 1), 2), 3), 4)

\* n * a for an int n
FloatTimes(n, a) == RoundToDouble(TimesExact(n, a))

\* a < b
FloatLess(a, b) ==
    \E i \in 1..Len(a) : a[i] < b[i] /\ \A j \in 1..(i - 1) : a[j] = b[j]

\* min(a, b) and max(a, b) of Python: the first argument unless the second
\* is smaller (larger).
FloatMin(a, b) == IF FloatLess(b, a) THEN b ELSE a
FloatMax(a, b) == IF FloatLess(a, b) THEN b ELSE a

\* 2^k modulo m for k < 64 and 1 < m < 2^15, by the squares 2^1, 2^2, 2^4,
\* ... modulo m.
PowerOfTwoMod(k, m) ==
    LET square16 == 65536 % m
        factor(b, square) == IF (k \div (2 ^ b)) % 2 = 1 THEN square ELSE 1
    IN  (((((((((factor(0, 2 % m) * factor(1, 4 % m)) % m)
                  * factor(2, 16 % m)) % m)
                  * factor(3, 256 % m)) % m)
                  * factor(4, square16)) % m)
                  * factor(5, (square16 * square16) % m)) % m

\* The first n binary digits of num/den (below 2), the last of them set when
\* anything is left from it on: digit i is the parity of the whole part of
\* num * 2^(i-1) / den.
QuotientDigits(num, den, n) ==
    SubSeq([i \in 1..n |->
               IF i < n THEN ((num * PowerOfTwoMod(i - 1, 2 * den)) % (2 * den)) \div den
               ELSE IF (num * PowerOfTwoMod(n - 2, 2 * den)) % den # 0 THEN 1 ELSE 0],
           1, n)

\* The double a decimal literal num/den denotes.
FloatLiteral(num, den) ==
    SubSeq(RoundToDouble(QuotientDigits(num, den, FloatDigits + 4)), 1, FloatDigits)

-----------------------------------------------------------------------------
(* NavigatorAgent: search terms, catalog search, scoring                   *)

\* The elements of seq at the positions in indices, in order.
Pick(seq, indices) ==
    LET at(k) == CHOOSE i \in indices : Cardinality({j \in indices : j < i}) = k - 1
    IN  SubSeq([k \in 1..Cardinality(indices) |-> seq[at(k)]], 1, Cardinality(indices))

\* The sequences part(1), ..., part(n) one after another.
Concat(n, part(_)) ==
    LET parts == SubSeq([m \in 1..n |-> part(m)], 1, n)
        joined[m \in 0..n] == IF m = 0 THEN <<>> ELSE joined[m - 1] \o parts[m]
    IN  joined[n]

\* A variant that keeps every occurrence.
EveryOccurrence(seq) == seq

\* seq without the later occurrences of its elements.
FirstOccurrences(seq) ==
    Pick(seq, {i \in 1..Len(seq) : \A j \in 1..(i - 1) : seq[j] # seq[i]})

\* A variant that takes every value as true.
AlwaysTruthy(value) == TRUE

\* A value Python takes as true in "if value:".
Truthy(value) == value # None /\ value # ""

\* MockResourceCatalog.resources
Catalog ==
    << [resource_id |-> "demo-001", title |-> "Azure OpenAI Chat Demo", type |-> "Demo",
        description |-> "Interactive chat demo showcasing Azure OpenAI integration",
        tags |-> <<"ai", "chat", "azure", "openai">>, industry |-> <<"general">>],
       [resource_id |-> "solution-001", title |-> "Document Intelligence Pipeline",
        type |-> "Solution",
        description |-> "Complete solution for document processing with AI extraction",
        tags |-> <<"ai", "document", "processing", "pipeline">>,
        industry |-> <<"finance", "legal", "healthcare">>],
       [resource_id |-> "component-001", title |-> "Azure Functions Auth Handler",
        type |-> "Component",
        description |-> "Reusable authentication component for Azure Functions",
        tags |-> <<"auth", "azure", "functions", "security">>, industry |-> <<"general">>],
       [resource_id |-> "demo-002", title |-> "Power BI Embedded Dashboard", type |-> "Demo",
        description |-> "Embedded analytics dashboard with Power BI",
        tags |-> <<"powerbi", "analytics", "dashboard", "embedded">>,
        industry |-> <<"retail", "manufacturing", "finance">>],
       [resource_id |-> "solution-002", title |-> "IoT Device Management Platform",
        type |-> "Solution",
        description |-> "Complete IoT device lifecycle management solution",
        tags |-> <<"iot", "device", "management", "azure">>,
        industry |-> <<"manufacturing", "agriculture", "utilities">>] >>

\* MockResourceCatalog.search_resources(query, resource_type, industry): the
\* resources that pass every filter given, in catalog order.
CatalogSearch(query, resource_type, industry) ==
    LET type_lower == ToLower(resource_type)
        industry_lower == ToLower(industry)
        query_lower == ToLower(query)
    IN  Pick(Catalog,
             {i \in 1..Len(Catalog) :
                /\ Truthy(resource_type) => ToLower(Catalog[i].type) = type_lower
                /\ Truthy(industry) =>
                      \E k \in 1..Len(Catalog[i].industry) :
                          ToLower(Catalog[i].industry[k]) = industry_lower
                /\ Truthy(query) =>
                      \/ Contains(ToLower(Catalog[i].title), query_lower)
                      \/ Contains(ToLower(Catalog[i].description), query_lower)
                      \/ \E k \in 1..Len(Catalog[i].tags) :
                             Contains(ToLower(Catalog[i].tags[k]), query_lower)})

\* self.keyword_mapping, in the order of the dictionary
KeywordMapping ==
    << <<"ai", <<"artificial intelligence", "machine learning", "ml", "openai", "cognitive">> >>,
       <<"chat", <<"chatbot", "conversation", "dialogue", "messaging">> >>,
       <<"document", <<"doc", "pdf", "file", "paper", "text">> >>,
       <<"analytics", <<"analysis", "reporting", "insights", "metrics", "dashboard">> >>,
       <<"iot", <<"internet of things", "sensors", "devices", "telemetry">> >>,
       <<"auth", <<"authentication", "authorization", "security", "login">> >>,
       <<"cloud", <<"azure", "aws", "gcp", "infrastructure">> >> >>

TechKeywords ==
    {"api", "database", "web", "mobile", "integration", "platform", "service",
     "application", "system", "solution", "framework"}

\* _extract_search_terms(use_case)['keywords']: the base terms found in the
\* description (themselves or a variation, as substrings), then the tech
\* keywords among the words of title and description, each once.
ExtractKeywords(use_case) ==
    LET description_lower == ToLower(use_case.description)
        mapped == Pick([k \in 1..Len(KeywordMapping) |-> KeywordMapping[k][1]],
                       {k \in 1..Len(KeywordMapping) :
                           \/ Contains(description_lower, KeywordMapping[k][1])
                           \/ \E v \in Range(KeywordMapping[k][2]) :
                                  Contains(description_lower, v)})
        found == RegexWords(use_case.title \o " " \o use_case.description)
        words == SubSeq([i \in 1..Len(found) |-> ToLower(found[i])], 1, Len(found))
        base_terms == Range(mapped)
    IN  mapped \o Pick(words, {i \in 1..Len(words) :
                                  /\ words[i] \in TechKeywords
                                  /\ words[i] \notin base_terms
                                  /\ \A j \in 1..(i - 1) : words[j] # words[i]})

\* _extract_search_terms
ExtractSearchTerms(use_case) ==
    [keywords |-> ExtractKeywords(use_case),
     resource_types |-> use_case.resource_type_preference,
     industry |-> use_case.industry_vertical,
     cloud |-> use_case.cloud_preference]

\* _search_catalog: the hits of the keyword searches, then of the type
\* searches, then of the industry search, a resource already among the
\* matches not being added again.
SearchCatalog(search_terms) ==
    LET by_keyword(k) == CatalogSearch(search_terms.keywords[k], None, None)
        by_type(k) == CatalogSearch("", search_terms.resource_types[k], None)
        by_industry == IF Truthy(search_terms.industry)
                       THEN CatalogSearch("", None, search_terms.industry)
                       ELSE <<>>
    IN  FirstOccurrences(Concat(Len(search_terms.keywords), by_keyword)
                           \o Concat(Len(search_terms.resource_types), by_type)
                           \o by_industry)

TitleIncrement == FloatLiteral(3, 10)
OverlapStep == FloatLiteral(2, 100)
TypeIncrement == FloatLiteral(2, 10)
\* A variant that gives an industry match 0.95.
SteepIncrement == FloatLiteral(95, 100)

IndustryIncrement == FloatLiteral(15, 100)
TagStep == FloatLiteral(5, 100)
TagCap == FloatLiteral(25, 100)
FloatOne == FloatLiteral(1, 1)

\* The five tests of _score_resources on one resource.
TitleMatches(resource, use_case) ==
    LET resource_title == ToLower(resource.title)
    IN  \E word \in Range(Split(ToLower(use_case.title))) : Contains(resource_title, word)

DescriptionOverlap(resource, use_case) ==
    Cardinality(Range(Split(ToLower(use_case.description)))
                    \cap Range(Split(ToLower(resource.description))))

TypeMatches(resource, use_case) ==
    resource.type \in Range(use_case.resource_type_preference)

IndustryMatches(resource, use_case) ==
    /\ Truthy(use_case.industry_vertical)
    /\ LET industry_lower == ToLower(use_case.industry_vertical)
       IN  \E k \in 1..Len(resource.industry) : ToLower(resource.industry[k]) = industry_lower

TagMatches(resource, use_case) ==
    LET keywords == Range(ExtractKeywords(use_case))
    IN  Cardinality({k \in 1..Len(resource.tags) : resource.tags[k] \in keywords})

\* The score of one resource: the increments added to 0.0 in the order of
\* the code, then min(1.0, max(0.0, score)).  tests holds the outcomes of the
\* five tests and after the score after each of them.
Score(resource, use_case) ==
    LET tests == << TitleMatches(resource, use_case),
                    DescriptionOverlap(resource, use_case),
                    TypeMatches(resource, use_case),
                    IndustryMatches(resource, use_case),
                    TagMatches(resource, use_case) >>
        s1 == IF tests[1] THEN FloatAdd(FloatZero, TitleIncrement) ELSE FloatZero
        s2 == FloatAdd(s1, FloatMin(TitleIncrement, FloatTimes(tests[2], OverlapStep)))
        s3 == IF tests[3] THEN FloatAdd(s2, TypeIncrement) ELSE s2
        s4 == IF tests[4] THEN FloatAdd(s3, IndustryIncrement) ELSE s3
        s5 == FloatAdd(s4, FloatMin(TagCap, FloatTimes(tests[5], TagStep)))
        after == << s1, s2, s3, s4, s5 >>
    IN  FloatMin(FloatOne, FloatMax(FloatZero, after[5]))

\* A variant that sorts by rising score.
SortByScoreAscending(scored) ==
    LET place(i) == Cardinality({j \in 1..Len(scored) :
                                    \/ FloatLess(scored[j].score, scored[i].score)
                                    \/ j < i /\ scored[j].score = scored[i].score}) + 1
    IN  SubSeq([k \in 1..Len(scored) |->
                   scored[CHOOSE i \in 1..Len(scored) : place(i) = k]], 1, Len(scored))

\* list.sort(key=score, reverse=True): descending, elements of equal score
\* in the order they had.
SortByScoreDescending(scored) ==
    LET place(i) == Cardinality({j \in 1..Len(scored) :
                                    \/ FloatLess(scored[i].score, scored[j].score)
                                    \/ j < i /\ scored[j].score = scored[i].score}) + 1
    IN  SubSeq([k \in 1..Len(scored) |->
                   scored[CHOOSE i \in 1..Len(scored) : place(i) = k]], 1, Len(scored))

\* _score_resources
ScoreResources(resources, use_case) ==
    SortByScoreDescending(
        SubSeq([i \in 1..Len(resources) |->
                   [resource |-> resources[i], score |-> Score(resources[i], use_case)]],
               1, Len(resources)))

-----------------------------------------------------------------------------
(* NavigatorAgent: bill of materials                                       *)

BOMItem(item, category, source, required) ==
    [item |-> item, category |-> category, source |-> source, required |-> required]

TopBom == 5
TopMatches == 10
\* A variant that asks for a relevance above one half only.
HalfThreshold == FloatLiteral(5, 10)

RequiredThreshold == FloatLiteral(7, 10)

Take(seq, n) == SubSeq(seq, 1, IF Len(seq) < n THEN Len(seq) ELSE n)

\* _get_cloud_requirements
GetCloudRequirements(cloud_preference) ==
    LET cloud == ToLower(cloud_preference)
    IN  IF cloud = "azure"
        THEN << BOMItem("Azure Subscription", "Infrastructure", "Azure", TRUE),
                BOMItem("Azure DevOps", "Tools", "Azure", TRUE),
                BOMItem("Azure Monitor", "Operations", "Azure", FALSE) >>
        ELSE IF cloud = "aws"
        THEN << BOMItem("AWS Account", "Infrastructure", "AWS", TRUE),
                BOMItem("CodePipeline", "Tools", "AWS", TRUE),
                BOMItem("CloudWatch", "Operations", "AWS", FALSE) >>
        ELSE IF cloud = "gcp"
        THEN << BOMItem("GCP Project", "Infrastructure", "GCP", TRUE),
                BOMItem("Cloud Build", "Tools", "GCP", TRUE),
                BOMItem("Cloud Monitoring", "Operations", "GCP", FALSE) >>
        ELSE <<>>

\* A variant that tests every regime on its own, without elif.
EveryRegimeItem(req) ==
    LET req_lower == ToLower(req)
        item(regime, name) ==
            IF Contains(req_lower, regime)
            THEN <<BOMItem(name, "Compliance", "Regulatory", TRUE)>> ELSE <<>>
    IN  item("gdpr", "GDPR Compliance Framework") \o item("hipaa", "HIPAA Compliance Tools")
            \o item("soc2", "SOC2 Audit Preparation") \o item("pci", "PCI-DSS Compliance Suite")

\* The if/elif chain of _get_compliance_requirements on one requirement:
\* the item of the first regime found in it, or no item.
ComplianceItem(req) ==
    LET req_lower == ToLower(req)
    IN  IF Contains(req_lower, "gdpr")
        THEN <<BOMItem("GDPR Compliance Framework", "Compliance", "Regulatory", TRUE)>>
        ELSE IF Contains(req_lower, "hipaa")
        THEN <<BOMItem("HIPAA Compliance Tools", "Compliance", "Regulatory", TRUE)>>
        ELSE IF Contains(req_lower, "soc2")
        THEN <<BOMItem("SOC2 Audit Preparation", "Compliance", "Regulatory", TRUE)>>
        ELSE IF Contains(req_lower, "pci")
        THEN <<BOMItem("PCI-DSS Compliance Suite", "Compliance", "Regulatory", TRUE)>>
        ELSE <<>>

\* _get_compliance_requirements
GetComplianceRequirements(requirements) ==
    LET item(k) == ComplianceItem(requirements[k])
    IN  Concat(Len(requirements), item)

\* The five groups of _generate_bom_items, in the order they are appended.
ResourceItems(scored_resources) ==
    LET top == Take(scored_resources, TopBom)
    IN  SubSeq([k \in 1..Len(top) |->
                   BOMItem(top[k].resource.title, "TechHub " \o top[k].resource.type,
                           "TechHub Catalog", FloatLess(RequiredThreshold, top[k].score))],
               1, Len(top))

CloudItems(use_case) ==
    IF Truthy(use_case.cloud_preference)
    THEN GetCloudRequirements(use_case.cloud_preference) ELSE <<>>

ComplianceItems(use_case) ==
    IF use_case.project_constraints.compliance_requirements # <<>>
    THEN GetComplianceRequirements(use_case.project_constraints.compliance_requirements)
    ELSE <<>>

StandardItems ==
    << BOMItem("Project Management", "Process", "Standard Practice", TRUE),
       BOMItem("Technical Documentation", "Deliverable", "Standard Practice", TRUE) >>

RapidDeployment == BOMItem("Rapid Deployment Framework", "Process", "Best Practice", TRUE)

TimelineItems(use_case) ==
    IF /\ Truthy(use_case.project_constraints.timeline)
       /\ Contains(ToLower(use_case.project_constraints.timeline), "urgent")
    THEN <<RapidDeployment>> ELSE <<>>

\* A variant that appends the standard items before the compliance items.
StandardBeforeCompliance(scored_resources, use_case) ==
    ResourceItems(scored_resources) \o CloudItems(use_case) \o StandardItems
        \o ComplianceItems(use_case) \o TimelineItems(use_case)

\* _generate_bom_items
GenerateBomItems(scored_resources, use_case) ==
    ResourceItems(scored_resources) \o CloudItems(use_case) \o ComplianceItems(use_case)
        \o StandardItems \o TimelineItems(use_case)

\* The recommended resources of _search_resources: the top ten of the ranking.
RecommendedResources(scored_resources) ==
    LET top == Take(scored_resources, TopMatches)
    IN  SubSeq([k \in 1..Len(top) |->
                   [resource_id |-> top[k].resource.resource_id,
                    title |-> top[k].resource.title,
                    type |-> top[k].resource.type,
                    relevance_score |-> top[k].score]], 1, Len(top))

-----------------------------------------------------------------------------
(* OrchestratorAgent: intent analysis                                      *)

\* A variant that lists the levels from low to high.
LowFirstIndicators ==
    << <<"low", {"demo", "proof", "prototype", "simple"}>>,
       <<"medium", {"integration", "custom", "solution", "multiple"}>>,
       <<"high", {"enterprise", "scale", "production", "mission-critical", "compliance"}>> >>

\* complexity_indicators, in the order of the dictionary
ComplexityIndicators ==
    << <<"high", {"enterprise", "scale", "production", "mission-critical", "compliance"}>>,
       <<"medium", {"integration", "custom", "solution", "multiple"}>>,
       <<"low", {"demo", "proof", "prototype", "simple"}>> >>

\* The level of the first entry of indicators with a member in the text,
\* "medium" when no entry has one.
ComplexityLevel(indicators, description_lower) ==
    LET hits == {k \in 1..Len(indicators) :
                    \E indicator \in indicators[k][2] : Contains(description_lower, indicator)}
    IN  IF hits = {} THEN "medium"
        ELSE indicators[CHOOSE k \in hits : \A other \in hits : k <= other][1]

\* A variant that tests the short-duration keywords before the urgency
\* keywords.
ShortDurationFirst(timeline) ==
    IF timeline = None \/ timeline = "" THEN "normal"
    ELSE IF \E quick \in {"week", "days"} : Contains(ToLower(timeline), quick)
    THEN "medium"
    ELSE IF \E urgent \in {"urgent", "asap", "immediate"} : Contains(ToLower(timeline), urgent)
    THEN "high"
    ELSE "normal"

\* analysis['priority'], from the timeline
TimelinePriority(timeline) ==
    IF ~Truthy(timeline) THEN "normal"
    ELSE IF \E urgent \in {"urgent", "asap", "immediate"} : Contains(ToLower(timeline), urgent)
    THEN "high"
    ELSE IF \E quick \in {"week", "days"} : Contains(ToLower(timeline), quick)
    THEN "medium"
    ELSE "normal"

\* _perform_intent_analysis
PerformIntentAnalysis(use_case) ==
    LET description_lower == ToLower(use_case.description)
        complexity == ComplexityLevel(ComplexityIndicators, description_lower)
        optional == << <<use_case.project_constraints.compliance_requirements # <<>>,
                         "ComplianceAgent", "compliance_review">>,
                       <<Truthy(use_case.project_constraints.budget),
                         "CostAgent", "cost_analysis">>,
                       <<Contains(description_lower, "infrastructure")
                            \/ Contains(description_lower, "deployment"),
                         "InfraAgent", "infrastructure_planning">>,
                       <<complexity = "high", "ResearchAgent", "precedent_research">> >>
        added == Pick(optional, {k \in 1..Len(optional) : optional[k][1]})
        agents == <<"NavigatorAgent", "ArchivistAgent">>
                      \o SubSeq([k \in 1..Len(added) |-> added[k][2]], 1, Len(added))
    IN  [intent_type |-> "resource_discovery",
         complexity_level |-> complexity,
         required_agents |-> agents,
         priority |-> TimelinePriority(use_case.project_constraints.timeline),
         estimated_effort |-> IF complexity = "high" THEN "high"
                              ELSE IF Len(agents) > 3 THEN "medium" ELSE "low",
         special_requirements |-> SubSeq([k \in 1..Len(added) |-> added[k][3]], 1, Len(added))]

-----------------------------------------------------------------------------
(* SpecNavigator: the Navigator's and the Intent Analyzer's computations   *)
(* applied to one use case                                                 *)

Titles == {"Chat assistant", "Document intake"}
Descriptions ==
    {"Simple chat demo with login for enterprise support",
     "Device platform with dashboard",
     "Document processing solution with AI extraction",
     "Scan PDF invoices prototype"}
Industries == {None, "Finance"}
CloudPreferences == {None, "Azure", "oracle"}
TypePreferences == {<<>>, <<"Solution">>, <<"Solution", "Demo">>}
Timelines == {None, "need this ASAP", "Urgent: two weeks"}
ComplianceLists == {<<>>, <<"GDPR", "SOC2">>, <<"iso 27001", "PCI-DSS v4", "hipaa and gdpr">>}
Budgets == {None}

Requests ==
    {[use_case_id |-> "uc1", title |-> title, description |-> description,
      industry_vertical |-> industry, cloud_preference |-> cloud,
      resource_type_preference |-> types,
      project_constraints |-> [budget |-> budget, timeline |-> timeline,
                               compliance_requirements |-> compliance]] :
        title \in Titles, description \in Descriptions, industry \in Industries,
        cloud \in CloudPreferences, types \in TypePreferences, timeline \in Timelines,
        compliance \in ComplianceLists, budget \in Budgets}

InitNavigator ==
    /\ db = EmptyDb
    /\ next_id = 0
    /\ CoordIdle
    /\ WorkflowIdle
    /\ CliIdle
    /\ OpsIdle
    /\ SessionsIdle
    /\ request \in Requests
    /\ findings = NoData

Found(result) ==
    /\ findings = NoData
    /\ findings' = result
    /\ UNCHANGED <<db, next_id, coordVars, wfVars, cliVars, opVars, sessVars, request>>

\* _search_resources after the use case was read: terms, matches, ranking,
\* recommended resources and bill of materials.
SearchResources ==
    \E search_terms \in {ExtractSearchTerms(request)} :
    \E matching_resources \in {SearchCatalog(search_terms)} :
    \E scored_resources \in {ScoreResources(matching_resources, request)} :
        Found([operation |-> "search_resources",
               matching_resources |-> matching_resources,
               scored_resources |-> scored_resources,
               resource_matches |-> RecommendedResources(scored_resources),
               generated_bom |-> GenerateBomItems(scored_resources, request)])

\* _generate_bom after the use case was read: the bill of materials of an
\* empty ranking.
GenerateBom ==
    Found([operation |-> "generate_bom", generated_bom |-> GenerateBomItems(<<>>, request)])

\* _analyze_intent after the use case was read
AnalyzeIntent ==
    Found([operation |-> "analyze_intent", analysis |-> PerformIntentAnalysis(request)])

NextNavigator ==
    \/ SearchResources
    \/ GenerateBom
    \/ AnalyzeIntent

SpecNavigator == InitNavigator /\ [][NextNavigator]_vars

-----------------------------------------------------------------------------
(* SpecIntent: the Intent Analyzer applied to one use case, the use cases  *)
(* differing in what the analysis reads: description, timeline, budget and *)
(* compliance requirements                                                 *)

IntentDescriptions ==
    {"Simple chat demo",
     "Enterprise Deployment of a chat platform",
     "Cloud infrastructure for sensors",
     "Inventory tracker",
     "Custom integration at production scale"}
IntentTimelines ==
    {None, "", "need this ASAP", "Urgent: two weeks", "within 30 days", "next quarter",
     "IMMEDIATE start", "6 Weeks"}
IntentBudgets == {None, "", "50k"}
IntentCompliance == {<<>>, <<"GDPR", "SOC2">>}

IntentRequests ==
    {[use_case_id |-> "uc1", title |-> "Chat assistant", description |-> description,
      industry_vertical |-> None, cloud_preference |-> None,
      resource_type_preference |-> <<>>,
      project_constraints |-> [budget |-> budget, timeline |-> timeline,
                               compliance_requirements |-> compliance]] :
        description \in IntentDescriptions, timeline \in IntentTimelines,
        compliance \in IntentCompliance, budget \in IntentBudgets}

InitIntent ==
    /\ db = EmptyDb
    /\ next_id = 0
    /\ CoordIdle
    /\ WorkflowIdle
    /\ CliIdle
    /\ OpsIdle
    /\ SessionsIdle
    /\ request \in IntentRequests
    /\ findings = NoData

NextIntent == AnalyzeIntent

SpecIntent == InitIntent /\ [][NextIntent]_vars

-----------------------------------------------------------------------------
(* Properties of the coordination run (SpecCoord)                          *)

Names(seq) == {seq[i] : i \in 1..Len(seq)}

FailedEntryAt(k) ==
    k \in 1..Len(coordination_results) /\ ~coordination_results[k].success

CriticalFailureAt(k) ==
    FailedEntryAt(k) /\ coordination_results[k].agent \in {"NavigatorAgent", "ArchivistAgent"}

\* The entry records a raised exception rather than a returned response.
RaisedAt(k) == coordination_results[k].message = "execution_failed"

NonCriticalFailureAt(k) ==
    FailedEntryAt(k) /\ coordination_results[k].agent \notin {"NavigatorAgent", "ArchivistAgent"}

\* C1: whenever a critical worker (NavigatorAgent, ArchivistAgent) fails, by
\* a returned success=false or by raising, no worker after it is invoked and
\* its failed entry is the last entry of coordination_results.
C1_CriticalFailureHaltsRun ==
    \A k \in 1..Len(coordination_results) :
        CriticalFailureAt(k) => Len(given) = k /\ Len(coordination_results) = k

\* A critical worker raised and its entry was recorded.
C1_Witness ==
    \E k \in 1..Len(coordination_results) : CriticalFailureAt(k) /\ RaisedAt(k)

\* C2: when a critical worker failed during the run, the response returned
\* by _coordinate_agents has success=false, for every non-empty list.
C2_CriticalFailureFailsRun ==
    (pc = "done" /\ required_agents # <<>>
        /\ \E k \in 1..Len(coordination_results) : CriticalFailureAt(k))
    => ~coord_response.success

\* A finished run of a non-empty list in which a critical worker failed.
C2_Witness ==
    /\ pc = "done"
    /\ required_agents # <<>>
    /\ \E k \in 1..Len(coordination_results) : CriticalFailureAt(k)

\* Every invocation has produced exactly one entry, at its own position,
\* except the invocation still awaited.
OneEntryPerInvocation ==
    /\ Len(coordination_results) <= Len(given)
    /\ Len(given) <= Len(coordination_results) + 1
    /\ \A k \in 1..Len(coordination_results) :
          coordination_results[k].agent = given[k].agent

\* C3 as stated: a non-critical worker's failure is exactly one failed entry,
\* every worker after it in the execution order is still invoked, and no
\* exception escapes _coordinate_agents.
C3_AllLaterWorkersInvoked ==
    /\ pc # "escaped"
    /\ OneEntryPerInvocation
    /\ pc = "done" =>
          \A k \in 1..Len(coordination_results) :
              NonCriticalFailureAt(k) => Len(given) = Len(agent_order)

\* C3 amended: a non-critical worker's failure is exactly one failed entry
\* and does not stop the run: every worker after it is still invoked, up to
\* and including the first critical worker after it that returns
\* success=false; no exception escapes _coordinate_agents.
C3_NonCriticalFailureDoesNotHalt ==
    /\ pc # "escaped"
    /\ OneEntryPerInvocation
    /\ pc = "done" =>
          \A k \in 1..Len(coordination_results) :
              NonCriticalFailureAt(k) =>
                  \A j \in (k + 1)..Len(agent_order) :
                      \/ j <= Len(given)
                      \/ \E i \in (k + 1)..(j - 1) : CriticalFailureAt(i) /\ ~RaisedAt(i)

C3_Witness ==
    /\ pc = "done"
    /\ \E k \in 1..Len(coordination_results) :
          /\ NonCriticalFailureAt(k)
          /\ k < Len(agent_order)
          /\ Len(coordination_results) = Len(agent_order)

\* C4 as stated: the run's success is true exactly when the number of
\* successful entries is at least floor(N/2), N the number of requested
\* workers.
C4_SuccessIffHalfSucceeded ==
    pc = "done" =>
        (coord_response.success <=>
            Cardinality({k \in 1..Len(coordination_results) : coordination_results[k].success})
                >= Len(required_agents) \div 2)

\* C4 amended: for a non-empty list of N requested workers the run's success
\* is true exactly when the number of successful entries is at least
\* floor(N/2); for an empty list the run is refused with success=false.
C4_SuccessIffHalfOfNonEmpty ==
    pc = "done" =>
        IF required_agents = <<>>
        THEN ~coord_response.success
        ELSE (coord_response.success <=>
                Cardinality({k \in 1..Len(coordination_results) : coordination_results[k].success})
                    >= Len(required_agents) \div 2)

\* A run that stopped early: N counts the requested workers, not the entries.
C4_Witness ==
    /\ pc = "done"
    /\ Len(required_agents) >= 2
    /\ Len(coordination_results) < Len(required_agents)
    /\ Len(coordination_results) \div 2 # Len(required_agents) \div 2
    /\ ~coord_response.success

\* The priorities the claim names.
ClaimedPriority(x) ==
    CASE x = "NavigatorAgent" -> 1
      [] x = "ResearchAgent" -> 2
      [] x = "ComplianceAgent" -> 3
      [] x = "CostAgent" -> 4
      [] x = "InfraAgent" -> 5
      [] x = "ArchivistAgent" -> 9
      [] OTHER -> 5

OfPriority(seq, p) == SelectSeq(seq, LAMBDA x : ClaimedPriority(x) = p)

\* C5: the execution order is the requested list sorted by the fixed
\* priority, equal priorities keeping their requested order; NavigatorAgent,
\* when requested, is first and ArchivistAgent, when requested, last; and
\* workers are invoked strictly in that order.
C5_ExecutionOrder ==
    pc # "start" =>
        /\ \A i \in 1..(Len(agent_order) - 1) :
              ClaimedPriority(agent_order[i]) <= ClaimedPriority(agent_order[i + 1])
        /\ \A p \in 1..9 : OfPriority(agent_order, p) = OfPriority(required_agents, p)
        /\ "NavigatorAgent" \in Names(required_agents) => agent_order[1] = "NavigatorAgent"
        /\ "ArchivistAgent" \in Names(required_agents)
              => agent_order[Len(agent_order)] = "ArchivistAgent"
        /\ Len(given) <= Len(agent_order)
        /\ \A k \in 1..Len(given) : given[k].agent = agent_order[k]

\* Two different names of equal priority were requested out of priority
\* order, and every worker has been invoked.
C5_Witness ==
    /\ pc = "done"
    /\ agent_order # required_agents
    /\ Len(given) = Len(agent_order)
    /\ \E i, j \in 1..Len(required_agents) :
          /\ i < j
          /\ required_agents[i] # required_agents[j]
          /\ ClaimedPriority(required_agents[i]) = ClaimedPriority(required_agents[j])

\* The value the workers before the k-th returned last for a key.
LatestReturned(key, k) ==
    LET js == {j \in 1..(k - 1) : key \in DOMAIN coordination_results[j].data}
        last == CHOOSE j \in js : \A i \in js : i <= j
    IN  coordination_results[last].data[key]

\* C6: at most one worker is in progress at any time, and the context given
\* to the k-th worker contains every key returned by the workers before it,
\* with the value returned last for that key.
C6_SequentialMergedContext ==
    /\ Cardinality(in_progress) <= 1
    /\ \A k \in 1..Len(given) : \A j \in 1..(k - 1) :
          \A key \in DOMAIN coordination_results[j].data :
              /\ key \in DOMAIN given[k].context
              /\ given[k].context[key] = LatestReturned(key, k)

\* The third worker is given a key that both earlier workers returned, with
\* the second worker's value.
C6_Witness ==
    /\ Len(given) >= 3
    /\ Len(coordination_results) >= 2
    /\ \E key \in DOMAIN coordination_results[1].data :
          /\ key \in DOMAIN coordination_results[2].data
          /\ coordination_results[1].data[key] # coordination_results[2].data[key]
          /\ given[3].context[key] = coordination_results[2].data[key]

-----------------------------------------------------------------------------
(* Properties of the end-to-end workflow (SpecWorkflow)                    *)

WorkflowStepOrder == <<"analyze_intent", "spawn_navigator", "create_project", "log_workflow">>

Performed(step) == step \in Names(wf_steps)

\* C7: the steps run in the order analyze intent, spawn navigator, create
\* project, log workflow; the navigator is not invoked unless analysis
\* succeeded; no project is created and no workflow logged unless the
\* navigator succeeded; an analysis or navigator failure is returned as the
\* workflow result.
C7_WorkflowStepOrder ==
    /\ wf_steps = SubSeq(WorkflowStepOrder, 1, Len(wf_steps))
    /\ Performed("spawn_navigator") => analysis_result.success
    /\ Performed("create_project") => navigator_result.success
    /\ Performed("log_workflow") => navigator_result.success
    /\ (wf_pc # "idle" /\ ~navigator_result.success) =>
          /\ db.projects = wf_db0.projects
          /\ db.workflow_logs = wf_db0.workflow_logs
    /\ (wf_pc = "done" /\ ~analysis_result.success) => wf_response = analysis_result
    /\ (wf_pc = "done" /\ analysis_result.success /\ ~navigator_result.success) =>
          /\ wf_response = navigator_result
          /\ ~wf_response.success

\* A run that the navigator's failure ended, after an earlier complete run.
C7_Witness ==
    /\ wf_pc = "done"
    /\ wf_runs = 2
    /\ analysis_result.success
    /\ ~navigator_result.success
    /\ wf_steps = <<"analyze_intent", "spawn_navigator">>
    /\ db.projects # NoData

\* C8: once analysis and navigation have succeeded, a failure of the
\* archival step (a returned success=false or a raised exception) does not
\* change the outcome: the aggregate result with the resource matches and
\* the BOM is returned as a success.
C8_ArchivalFailureNotEscalated ==
    (wf_pc = "done" /\ analysis_result.success /\ navigator_result.success)
    => /\ wf_response.success
       /\ "resource_matches" \in DOMAIN wf_response.data
       /\ "generated_bom" \in DOMAIN wf_response.data

\* A run whose archival step raised.
C8_Witness ==
    /\ wf_pc = "done"
    /\ archive_outcome.raised

\* C14: when the write of a step fails (create_item raising while the
\* navigator stores its match or while the project is stored), the step's
\* result has success = FALSE, nothing of that collection is stored by a
\* second attempt, and the result the workflow returns to its caller has
\* success = FALSE.
C14_WriteFailureFailsResult ==
    /\ (Performed("spawn_navigator") /\ navigator_result.message = "navigator_failed"
           /\ wf_pc = "done")
          => /\ ~navigator_result.success
             /\ ~wf_response.success
             /\ db.resource_matches = wf_db0.resource_matches
    /\ (Performed("create_project") /\ project_result.message = "create_failed"
           /\ wf_pc = "done")
          => /\ ~project_result.success
             /\ db.projects = wf_db0.projects
             /\ ~wf_response.success

\* A run whose project could not be stored has returned.
C14_Witness ==
    /\ wf_pc = "done"
    /\ Performed("create_project")
    /\ project_result.message = "create_failed"
    /\ db.projects = wf_db0.projects

-----------------------------------------------------------------------------
(* Properties of the conversation (SpecCLI)                                *)

AwaitedActions == {"project_choice", "intake_form", "process_comprehensive",
                   "confirm_extraction"}

\* Texts that are neither a choice the awaited action offers nor a
\* description long enough to be taken as one.
InvalidInput(awaited, user_input) ==
    CASE awaited = "project_choice" -> Upper(user_input) \notin {"NEW", "EXISTING"}
      [] awaited = "intake_form" ->
            /\ Lower(user_input) \notin {"1", "guided", "guide", "one by one",
                                         "2", "comprehensive", "description", "describe",
                                         "3", "upload", "paste", "existing"}
            /\ StrLen(user_input) < MinDescriptionLength
      [] awaited = "process_comprehensive" -> StrLen(user_input) < MinDescriptionLength
      [] awaited = "confirm_extraction" ->
            Upper(user_input) # "YES" /\ StrLen(user_input) < MinDescriptionLength
      [] OTHER -> FALSE

\* C9: for every awaited action of the Concierge (project_choice,
\* intake_form, process_comprehensive, confirm_extraction) a text that is
\* invalid for it is answered, without an exception, by a reply whose next
\* awaited action is the same awaited action, and creates no use case.
C9_InvalidInputSelfLoops ==
    (last_turn.awaited \in AwaitedActions /\ InvalidInput(last_turn.awaited, last_turn.input))
    => /\ ~last_turn.raised
       /\ last_turn.next_action = last_turn.awaited
       /\ ~last_turn.created_use_case

\* An invalid text at project_choice, the one awaited action that loops.
C9_Witness ==
    /\ last_turn.awaited = "project_choice"
    /\ InvalidInput("project_choice", last_turn.input)
    /\ last_turn.next_action = "project_choice"

\* C10: an action label ConciergeAgent.process does not recognize is
\* answered, without an exception, by a response whose next awaited action
\* is the label it was given.
C10_UnknownActionReprompts ==
    (last_turn.action # None /\ last_turn.action \notin ConciergeActions)
    => /\ ~last_turn.raised
       /\ last_turn.next_action = last_turn.action

\* An unrecognized label reached ConciergeAgent.process and was answered.
C10_Witness ==
    /\ last_turn.action \in {"process_comprehensive", "edit_extraction"}
    /\ ~last_turn.raised
    /\ last_turn.next_action = "greet"

\* C11: after guided intake is started, a turn with awaited action
\* guided_intake_field is answered without an exception; before the last of
\* the 14 intake fields the reply awaits guided_intake_field again with
\* field_index advanced by one, the next field of the fixed list as current
\* field and the raw answer stored for the field just asked; the turn for
\* the last field is answered with awaited action confirm_extraction.
C11_GuidedIntakeWalksFields ==
    last_turn.awaited = "guided_intake_field" =>
        /\ ~last_turn.raised
        /\ Len(IntakeFields) = 14
        /\ LET i == last_turn.data_before["field_index"]
           IN  IF i + 1 < Len(IntakeFields)
               THEN /\ last_turn.next_action = "guided_intake_field"
                    /\ last_turn.data["field_index"] = i + 1
                    /\ last_turn.data["current_field"] = IntakeFields[i + 2]
                    /\ IntakeFields[i + 1] \in DOMAIN last_turn.data["collected_data"]
                    /\ last_turn.data["collected_data"][IntakeFields[i + 1]] = last_turn.input
               ELSE last_turn.next_action = "confirm_extraction"

\* Guided intake was started and the answer for its first field was typed.
C11_Witness ==
    /\ last_turn.awaited = "guided_intake_field"
    /\ last_turn.data_before["field_index"] = 0
    /\ last_turn.data_before["current_field"] = "title"
    /\ ~last_turn.raised

\* C12: with valid texts the conversation goes from the project choice
\* (NEW) to the intake form, from the selection of the comprehensive mode to
\* the capture of the description, from a description of at least 20
\* characters to the confirmation (a failed write of the use case apart,
\* which asks for the intake form again), and from YES to next action
\* 'orchestrate' with ready_for_orchestration set; none of these steps
\* returns to the greeting.
C12_ComprehensivePathReachesOrchestration ==
    /\ (last_turn.awaited = "project_choice" /\ Upper(last_turn.input) = "NEW")
          => (~last_turn.raised /\ last_turn.next_action = "intake_form")
    /\ (last_turn.awaited = "intake_form"
            /\ Lower(last_turn.input) \in {"2", "comprehensive", "description", "describe"})
          => (~last_turn.raised /\ last_turn.next_action = "process_comprehensive")
    /\ (last_turn.awaited = "process_comprehensive"
            /\ StrLen(last_turn.input) >= MinDescriptionLength)
          => /\ ~last_turn.raised
             /\ \/ last_turn.next_action = "confirm_extraction"
                \/ last_turn.next_action = "intake_form" /\ ~last_turn.created_use_case
    /\ (last_turn.awaited = "confirm_extraction" /\ Upper(last_turn.input) = "YES")
          => /\ ~last_turn.raised
             /\ last_turn.next_action = "orchestrate"
             /\ "ready_for_orchestration" \in DOMAIN last_turn.data

\* The comprehensive mode was selected and a description of at least 20
\* characters was typed when the capture was awaited.
C12_Witness ==
    /\ last_turn.awaited = "process_comprehensive"
    /\ "comprehensive_mode" \in DOMAIN last_turn.data_before
    /\ StrLen(last_turn.input) >= MinDescriptionLength

-----------------------------------------------------------------------------
(* Properties of the operations called one after another (SpecOps)         *)

Agents == {"ConciergeAgent", "OrchestratorAgent", "NavigatorAgent", "ArchivistAgent"}

\* C13: every process operation of the Concierge, the Orchestrator, the
\* Navigator and the Archivist returns an AgentResponse for every context
\* and every persistence failure: no exception leaves the operation.
C13_NoExceptionPropagates ==
    op.agent \in Agents => ~op.raised

\* An agent operation was called while the store was failing, or with a
\* context whose handler is missing, and an exception left it.
C13_Witness ==
    /\ op.agent \in Agents
    /\ op.raised

\* The collection an operation looks its record up in, and the context key
\* and the word of the message that go with it.
Lookup(agent, action) ==
    IF action = "update_project_status"
    THEN [collection |-> "projects", key |-> "project_id", kind |-> "Project"]
    ELSE IF action = "archive_session"
    THEN [collection |-> "chat_sessions", key |-> "session_id", kind |-> "Session"]
    ELSE [collection |-> "use_cases", key |-> "use_case_id", kind |-> "Use case"]

LookupOperations ==
    {<<"OrchestratorAgent", "analyze_intent">>, <<"OrchestratorAgent", "create_project">>,
     <<"NavigatorAgent", "search_resources">>, <<"NavigatorAgent", "generate_bom">>,
     <<"ArchivistAgent", "update_project_status">>, <<"ArchivistAgent", "archive_session">>}

\* The last operation was one of the look-up operations, called with an id
\* under which the store held nothing.
CalledWithUnknownId ==
    /\ "action" \in DOMAIN op.ctx
    /\ <<op.agent, op.ctx["action"]>> \in LookupOperations
    /\ LET l == Lookup(op.agent, op.ctx["action"])
       IN  /\ l.key \in DOMAIN op.ctx
           /\ ~HasItem(op.db_before, l.collection, op.ctx[l.key])

\* C15: analyze_intent, create_project, search_resources and generate_bom
\* called with a use_case_id the store does not hold, and
\* update_project_status and archive_session called with an unknown project
\* or session id, return success = FALSE with a message naming the missing
\* id, and leave every stored record as it was.
C15_UnknownIdFailsWithoutEffect ==
    CalledWithUnknownId =>
        LET l == Lookup(op.agent, op.ctx["action"])
        IN  /\ ~op.raised
            /\ ~op.resp.success
            /\ op.resp.message = l.kind \o " " \o op.ctx[l.key] \o " not found"
            /\ db = op.db_before

\* An archival of a session nobody opened, called while writes fail and
\* after an earlier operation has stored something.
C15_Witness ==
    /\ CalledWithUnknownId
    /\ op.ctx["action"] = "archive_session"
    /\ op.fault = "write"
    /\ db.resource_matches # NoData

\* The stored matches of a use case that are active.
ActiveMatches(store, use_case_id) ==
    {k \in DOMAIN store.resource_matches :
        /\ store.resource_matches[k].use_case_id = use_case_id
        /\ store.resource_matches[k].status = "active"}

\* The last operation was a resource search, called on the navigator or
\* spawned by the orchestrator, that stored its match.
SearchStored ==
    /\ "action" \in DOMAIN op.ctx
    /\ \/ op.agent = "NavigatorAgent" /\ op.ctx["action"] = "search_resources"
       \/ op.agent = "OrchestratorAgent" /\ op.ctx["action"] = "spawn_navigator"
    /\ op.resp.success

\* C18: after any sequence of resource searches, called on the navigator or
\* through the orchestrator, the store holds at most one ResourceMatch with
\* status "active" for a use case.
C18_AtMostOneActiveMatch ==
    \A k \in DOMAIN db.resource_matches :
        Cardinality(ActiveMatches(db, db.resource_matches[k].use_case_id)) <= 1

\* A second search for a use case that already had a match has stored its
\* own.
C18_Witness ==
    /\ SearchStored
    /\ ActiveMatches(op.db_before, op.ctx["use_case_id"]) # {}
    /\ ActiveMatches(db, op.ctx["use_case_id"]) # {}
    /\ db.resource_matches # op.db_before.resource_matches

\* The place of a status in the order new, matched, promoted/archived.
StatusRank(status) ==
    IF status = "new" THEN 0
    ELSE IF status = "matched" THEN 1
    ELSE 2

\* C19: whatever operation is called (an agent's, or submit_intake of the
\* API), every use case stored before it is still stored after it, with the
\* same use_case_id and a status that has not moved backward in the order
\* new, matched, promoted/archived.
C19_UseCaseIdFixedStatusForward ==
    \A u \in DOMAIN op.db_before.use_cases :
        /\ u \in DOMAIN db.use_cases
        /\ db.use_cases[u].use_case_id = op.db_before.use_cases[u].use_case_id
        /\ StatusRank(db.use_cases[u].status) >= StatusRank(op.db_before.use_cases[u].status)

\* An intake was submitted under the id of a stored use case that had been
\* matched.
C19_Witness ==
    /\ op.agent = "api"
    /\ ~op.raised
    /\ "use_case_id" \in DOMAIN op.ctx
    /\ HasItem(op.db_before, "use_cases", op.ctx["use_case_id"])
    /\ GetItem(op.db_before, "use_cases", op.ctx["use_case_id"]).status = "matched"

IsPrefix(s, t) == Len(s) <= Len(t) /\ SubSeq(t, 1, Len(s)) = s

\* The last operation was log_interaction or archive_session for a session
\* the store held.
CalledOnStoredSession ==
    /\ op.agent = "ArchivistAgent"
    /\ op.ctx["action"] \in {"log_interaction", "archive_session"}
    /\ "session_id" \in DOMAIN op.ctx
    /\ HasItem(op.db_before, "chat_sessions", op.ctx["session_id"])

\* C20: after log_interaction or archive_session on a stored session the
\* session is still stored and its conversation_history has the earlier
\* history as a prefix; log_interaction extends the history by exactly one
\* entry; archive_session sets the status to "archived" and changes nothing
\* else of the record.  The last two are stated for calls whose I/O does not
\* fail.
C20_SessionLogAppendOnly ==
    CalledOnStoredSession =>
        LET session_id == op.ctx["session_id"]
            before == GetItem(op.db_before, "chat_sessions", session_id)
        IN  /\ HasItem(db, "chat_sessions", session_id)
            /\ IsPrefix(before.conversation_history,
                        GetItem(db, "chat_sessions", session_id).conversation_history)
            /\ (op.ctx["action"] = "log_interaction" /\ op.fault = "none")
                  => Len(GetItem(db, "chat_sessions", session_id).conversation_history)
                         = Len(before.conversation_history) + 1
            /\ (op.ctx["action"] = "archive_session" /\ op.fault = "none")
                  => /\ ~op.raised
                     /\ GetItem(db, "chat_sessions", session_id)
                            = [before EXCEPT !.status = "archived"]

\* archive_session was called, with no I/O fault, on a session that had
\* interactions logged.
C20_Witness ==
    /\ CalledOnStoredSession
    /\ op.ctx["action"] = "archive_session"
    /\ op.fault = "none"
    /\ GetItem(op.db_before, "chat_sessions", op.ctx["session_id"]).conversation_history # <<>>

-----------------------------------------------------------------------------
(* Properties of the store (SpecStorage)                                   *)

StorageDid(action) ==
    /\ op.agent = "StorageService"
    /\ op.ctx["action"] = action

\* C16: for a record of every type, create_item returns the record's own
\* id (use_case_id, project_id, match_id or session_id according to the
\* type) and get_item(collection, that id) then returns the record; for a
\* record without id field create_item raises.  Stated for writes that do
\* not fail.
C16_CreateReturnsOwnId ==
    (StorageDid("create_item") /\ op.fault = "none") =>
        LET collection == op.ctx["collection"]
            field == OwnIdField(collection)
        IN  IF op.item = RecordWithoutId
            THEN op.raised /\ db = op.db_before
            ELSE /\ ~op.raised
                 /\ op.returned = op.item[field]
                 /\ HasItem(db, collection, op.item[field])
                 /\ GetItem(db, collection, op.item[field]) = op.item

\* A project has been stored.
C16_Witness ==
    /\ StorageDid("create_item")
    /\ op.fault = "none"
    /\ op.ctx["collection"] = "projects"
    /\ op.item # RecordWithoutId
    /\ ~op.raised

-----------------------------------------------------------------------------
(* Properties of the conversations in flight (SpecSessions)                *)

StoredHistory(store, session_id) ==
    GetItem(store, "chat_sessions", session_id).conversation_history

\* C21: under every interleaving of the operations of two conversations
\* (greeting, log_interaction, archive_session, suspended at each storage
\* call), a step of one conversation leaves the stored session of every
\* other conversation as it was, and whenever a conversation is between two
\* of its operations its stored history is the one its own operations
\* leave when run alone.
C21_SessionsIndependent ==
    /\ last_step.task # None =>
          \A k \in DOMAIN last_step.before :
              k # tasks[last_step.task].session_id
                  => /\ HasItem(db, "chat_sessions", k)
                     /\ GetItem(db, "chat_sessions", k) = last_step.before[k]
    /\ \A t \in Tasks :
          tasks[t].pc = "idle"
              => /\ HasItem(db, "chat_sessions", tasks[t].session_id)
                 /\ HasItem(tasks[t].solo, "chat_sessions", tasks[t].session_id)
                 /\ StoredHistory(db, tasks[t].session_id)
                        = StoredHistory(tasks[t].solo, tasks[t].session_id)

\* One conversation has just written its log while the other, which has
\* logged before, is suspended between reading its session and writing it.
C21_Witness ==
    /\ last_step.task = "t1"
    /\ tasks["t1"].pc = "idle"
    /\ StoredHistory(db, tasks["t1"].session_id) # <<>>
    /\ tasks["t2"].pc = "logging"
    /\ tasks["t2"].local.conversation_history # <<>>
    /\ last_step.before # db.chat_sessions


-----------------------------------------------------------------------------
(* Properties of the Navigator's and the Intent Analyzer's computations    *)
(* (SpecNavigator)                                                         *)

Did(operation) == findings # NoData /\ findings.operation = operation

HasBom == Did("search_resources") \/ Did("generate_bom")

\* C22: whenever the Intent Analyzer gives a request the priority high,
\* which it does when the timeline holds an urgency keyword, the bill of
\* materials generated for the same request holds the expedited-process
\* item, Rapid Deployment Framework.
C22_HighPriorityHasExpeditedItem ==
    (HasBom /\ PerformIntentAnalysis(request).priority = "high")
        => RapidDeployment \in Range(findings.generated_bom)

\* A request of high priority whose bill of materials holds the item.
C22_Witness ==
    /\ HasBom
    /\ PerformIntentAnalysis(request).priority = "high"
    /\ RapidDeployment \in Range(findings.generated_bom)


\* The request names one of the three cloud providers the Navigator knows.
KnownCloud ==
    /\ Truthy(request.cloud_preference)
    /\ ToLower(request.cloud_preference) \in {"azure", "aws", "gcp"}

Urgent ==
    /\ Truthy(request.project_constraints.timeline)
    /\ Contains(ToLower(request.project_constraints.timeline), "urgent")

\* The candidates a bill of materials was generated from: the ranking of
\* search_resources, none for generate_bom.
Candidates == IF Did("search_resources") THEN findings.scored_resources ELSE <<>>

\* C23: the bill of materials is, in this order, the items of at most five
\* candidates, the three items of the cloud provider when a known one is
\* preferred, the compliance items, Project Management and Technical
\* Documentation (both required), and the expedited item when the timeline
\* triggers it; the part after the candidates' items is the bill of
\* materials generate_bom gives for the same request.
C23_BomIsConcatenation ==
    HasBom =>
        LET bom == findings.generated_bom
            n == IF Len(Candidates) < 5 THEN Len(Candidates) ELSE 5
            c == IF KnownCloud THEN 3 ELSE 0
        IN  /\ Len(bom) >= n + c + 2
            /\ \A k \in 1..n :
                   /\ bom[k].source = "TechHub Catalog"
                   /\ bom[k].item = Candidates[k].resource.title
            /\ \A k \in (n + 1)..(n + c) :
                   /\ ToLower(bom[k].source) = ToLower(request.cloud_preference)
                   /\ bom[k].category \in {"Infrastructure", "Tools", "Operations"}
            /\ \E m \in 0..Len(request.project_constraints.compliance_requirements) :
                   /\ Len(bom) = n + c + m + 2 + (IF Urgent THEN 1 ELSE 0)
                   /\ \A k \in (n + c + 1)..(n + c + m) :
                          bom[k].category = "Compliance" /\ bom[k].source = "Regulatory"
                   /\ bom[n + c + m + 1]
                          = BOMItem("Project Management", "Process", "Standard Practice", TRUE)
                   /\ bom[n + c + m + 2]
                          = BOMItem("Technical Documentation", "Deliverable",
                                    "Standard Practice", TRUE)
                   /\ Urgent => bom[Len(bom)].item = "Rapid Deployment Framework"
            /\ SubSeq(bom, n + 1, Len(bom)) = GenerateBomItems(<<>>, request)

\* A search whose bill of materials has all five groups.
C23_Witness ==
    /\ Did("search_resources")
    /\ Len(Candidates) >= 2
    /\ KnownCloud
    /\ \E k \in 1..Len(findings.generated_bom) : findings.generated_bom[k].category = "Compliance"
    /\ Urgent


\* C24: the candidates' part of the bill of materials is the first
\* min(5, n) candidates of the ranking, in ranking order (scores never
\* rising), and a candidate's item is required exactly when its score is
\* strictly greater than 0.7.
C24_TopFiveRequiredAboveThreshold ==
    Did("search_resources") =>
        LET bom == findings.generated_bom
            ranked == findings.scored_resources
            n == IF Len(ranked) < 5 THEN Len(ranked) ELSE 5
        IN  /\ \A k \in 1..(Len(ranked) - 1) : ~FloatLess(ranked[k].score, ranked[k + 1].score)
            /\ {k \in 1..Len(bom) : bom[k].source = "TechHub Catalog"} = 1..n
            /\ \A k \in 1..n :
                   /\ bom[k].item = ranked[k].resource.title
                   /\ bom[k].category = "TechHub " \o ranked[k].resource.type
                   /\ bom[k].required <=> FloatLess(FloatLiteral(7, 10), ranked[k].score)

\* A ranking of four candidates with a required item, whose score is the
\* double next above 0.7, and an optional one.
C24_Witness ==
    /\ Did("search_resources")
    /\ Len(findings.scored_resources) >= 4
    /\ findings.generated_bom[1].required
    /\ findings.scored_resources[1].score
          = FloatAdd(FloatAdd(FloatAdd(FloatLiteral(3, 10), FloatLiteral(2, 10)),
                              FloatLiteral(15, 100)), FloatLiteral(5, 100))
    /\ ~findings.generated_bom[2].required
    /\ findings.generated_bom[2].source = "TechHub Catalog"


\* The regimes the Navigator knows, each with the name of its item.
Regimes ==
    {<<"gdpr", "GDPR Compliance Framework">>, <<"hipaa", "HIPAA Compliance Tools">>,
     <<"soc2", "SOC2 Audit Preparation">>, <<"pci", "PCI-DSS Compliance Suite">>}

\* C25: the compliance items of a bill of materials are one required item
\* for each requirement string that contains the name of a known regime in
\* whatever case, in the order of the strings, the item being that of a
\* regime the string names, and nothing for the other strings; the
\* requirements GDPR and SOC2 give the GDPR item and the SOC2 item, whatever
\* the candidates.
C25_OneItemPerKnownRegime ==
    HasBom =>
        LET bom == findings.generated_bom
            items == Pick(bom, {k \in 1..Len(bom) : bom[k].category = "Compliance"})
            requirements == request.project_constraints.compliance_requirements
            named(req, regime) == Contains(ToLower(req), regime[1])
            matched == Pick(requirements,
                            {k \in 1..Len(requirements) :
                                \E regime \in Regimes : named(requirements[k], regime)})
        IN  /\ Len(items) = Len(matched)
            /\ \A k \in 1..Len(items) :
                   /\ items[k].required
                   /\ \E regime \in Regimes :
                          named(matched[k], regime) /\ items[k].item = regime[2]
            /\ requirements = <<"GDPR", "SOC2">> =>
                   items = << BOMItem("GDPR Compliance Framework", "Compliance",
                                      "Regulatory", TRUE),
                              BOMItem("SOC2 Audit Preparation", "Compliance",
                                      "Regulatory", TRUE) >>

\* A bill of materials for three requirements, the first naming no regime
\* and the last naming two: it holds two compliance items.
C25_Witness ==
    /\ HasBom
    /\ Len(request.project_constraints.compliance_requirements) = 3
    /\ \E k \in 1..(Len(findings.generated_bom) - 1) :
           /\ findings.generated_bom[k].item = "PCI-DSS Compliance Suite"
           /\ findings.generated_bom[k + 1].item = "GDPR Compliance Framework"
           /\ findings.generated_bom[k + 2].category # "Compliance"


\* The place of a resource in the catalog.
CatalogIndex(resource) == CHOOSE i \in 1..Len(Catalog) : Catalog[i] = resource

\* C26: two candidates of the same score stand in the ranking in the order
\* the catalog lists them.
C26_TiesInCatalogOrder ==
    Did("search_resources") =>
        LET ranked == findings.scored_resources
        IN  \A k, l \in 1..Len(ranked) :
                (k < l /\ ranked[k].score = ranked[l].score)
                    => CatalogIndex(ranked[k].resource) < CatalogIndex(ranked[l].resource)

\* A ranking with two candidates of the same score, in catalog order.
C26_Witness ==
    /\ Did("search_resources")
    /\ \E k \in 1..(Len(findings.scored_resources) - 1) :
           /\ findings.scored_resources[k].score = findings.scored_resources[k + 1].score
           /\ CatalogIndex(findings.scored_resources[k].resource)
                 < CatalogIndex(findings.scored_resources[k + 1].resource)


\* The sum the claim describes for one resource: 0.3 for a title match, 0.02
\* a shared description word up to 0.3, 0.2 for a preferred type, 0.15 for
\* an industry match, 0.05 a matching tag up to 0.25, clamped to 1.0.
ClampedSum(resource) ==
    LET tests == << TitleMatches(resource, request),
                    DescriptionOverlap(resource, request),
                    TypeMatches(resource, request),
                    IndustryMatches(resource, request),
                    TagMatches(resource, request) >>
        title == IF tests[1] THEN FloatLiteral(3, 10) ELSE FloatZero
        description == FloatMin(FloatLiteral(3, 10), FloatTimes(tests[2], FloatLiteral(2, 100)))
        type == IF tests[3] THEN FloatLiteral(2, 10) ELSE FloatZero
        industry == IF tests[4] THEN FloatLiteral(15, 100) ELSE FloatZero
        tag == FloatMin(FloatLiteral(25, 100), FloatTimes(tests[5], FloatLiteral(5, 100)))
        parts == << title, description, type, industry, tag >>
        sum2 == FloatAdd(parts[1], parts[2])
        sum3 == FloatAdd(sum2, parts[3])
        sum4 == FloatAdd(sum3, parts[4])
        sum5 == FloatAdd(sum4, parts[5])
        sums == << sum2, sum3, sum4, sum5 >>
    IN  FloatMin(FloatLiteral(1, 1), sums[4])

\* RecommendedResource.relevance_score: Field(ge=0.0, le=1.0)
ValidRelevance(score) == ~FloatLess(score, FloatZero) /\ ~FloatLess(FloatLiteral(1, 1), score)

\* C27: every candidate's score is the clamped sum of the title,
\* description, type, industry and tag contributions and lies within
\* [0, 1], so every recommended resource passes the validation of its
\* relevance score.
C27_ScoreWithinUnitInterval ==
    Did("search_resources") =>
        /\ \A k \in 1..Len(findings.scored_resources) :
               /\ findings.scored_resources[k].score
                     = ClampedSum(findings.scored_resources[k].resource)
               /\ ValidRelevance(findings.scored_resources[k].score)
        /\ \A k \in 1..Len(findings.resource_matches) :
               ValidRelevance(findings.resource_matches[k].relevance_score)

\* A candidate with all five contributions.
C27_Witness ==
    /\ Did("search_resources")
    /\ \E k \in 1..Len(findings.scored_resources) :
           LET resource == findings.scored_resources[k].resource
           IN  /\ TitleMatches(resource, request)
               /\ DescriptionOverlap(resource, request) > 0
               /\ TypeMatches(resource, request)
               /\ IndustryMatches(resource, request)
               /\ TagMatches(resource, request) > 0
               /\ findings.resource_matches[k].relevance_score
                     = findings.scored_resources[k].score


\* The resources each search strategy surfaces for the request.
ByKeyword ==
    UNION {Range(CatalogSearch(keyword, None, None)) :
               keyword \in Range(ExtractKeywords(request))}

ByType ==
    UNION {Range(CatalogSearch("", type, None)) :
               type \in Range(request.resource_type_preference)}

ByIndustry ==
    IF Truthy(request.industry_vertical)
    THEN Range(CatalogSearch("", None, request.industry_vertical)) ELSE {}

\* C28: every resource a strategy surfaces is in the scored candidate list,
\* and no two entries of the list have the same resource_id.
C28_CandidatesOnce ==
    Did("search_resources") =>
        LET ranked == findings.scored_resources
        IN  /\ \A k, l \in 1..Len(ranked) :
                   ranked[k].resource.resource_id = ranked[l].resource.resource_id => k = l
            /\ {ranked[k].resource : k \in 1..Len(ranked)} = ByKeyword \cup ByType \cup ByIndustry

\* A candidate that a keyword search, a type search and the industry search
\* all surface.
C28_Witness ==
    /\ Did("search_resources")
    /\ \E k \in 1..Len(findings.scored_resources) :
           findings.scored_resources[k].resource \in ByKeyword \cap ByType \cap ByIndustry


\* The score of the resource holds the type increment and a tag increment.
TypeAndTag(resource) ==
    TypeMatches(resource, request) /\ TagMatches(resource, request) > 0

\* The industry match is the only contribution to the score of the resource.
IndustryOnly(resource) ==
    /\ IndustryMatches(resource, request)
    /\ ~TitleMatches(resource, request)
    /\ DescriptionOverlap(resource, request) = 0
    /\ ~TypeMatches(resource, request)
    /\ TagMatches(resource, request) = 0

\* C29: a candidate whose score holds the type increment and at least one
\* tag increment stands in the ranking before every candidate whose only
\* contribution is the industry match, with a strictly greater score.
C29_TypeAndTagAboveIndustryOnly ==
    Did("search_resources") =>
        LET ranked == findings.scored_resources
        IN  \A k, l \in 1..Len(ranked) :
                (TypeAndTag(ranked[k].resource) /\ IndustryOnly(ranked[l].resource))
                    => k < l /\ FloatLess(ranked[l].score, ranked[k].score)

\* A ranking with a candidate of either kind.
C29_Witness ==
    /\ Did("search_resources")
    /\ \E k, l \in 1..Len(findings.scored_resources) :
           /\ TypeAndTag(findings.scored_resources[k].resource)
           /\ IndustryOnly(findings.scored_resources[l].resource)
           /\ findings.scored_resources[l].score = FloatLiteral(15, 100)


\* A member of words occurs in the lower-cased description of the request.
Mentions(words) == \E word \in words : Contains(ToLower(request.description), word)

HighWords == {"enterprise", "scale", "production", "mission-critical", "compliance"}
MediumWords == {"integration", "custom", "solution", "multiple"}
LowWords == {"demo", "proof", "prototype", "simple"}

\* C30: the complexity level is high when the description mentions a high
\* word, else medium when it mentions a medium word, else low when it
\* mentions a low word, else medium; a description with a low and a high
\* word is high.
C30_ComplexityFirstMatch ==
    Did("analyze_intent") =>
        findings.analysis.complexity_level
            = IF Mentions(HighWords) THEN "high"
              ELSE IF Mentions(MediumWords) THEN "medium"
              ELSE IF Mentions(LowWords) THEN "low"
              ELSE "medium"

\* The analysis of a description with a low and a high word.
C30_Witness ==
    /\ Did("analyze_intent")
    /\ Mentions(LowWords)
    /\ Mentions(HighWords)
    /\ findings.analysis.complexity_level = "high"

-----------------------------------------------------------------------------
(* Properties of the intent analysis (SpecIntent)                          *)

TimelineText ==
    IF request.project_constraints.timeline = None THEN ""
    ELSE ToLower(request.project_constraints.timeline)

UrgencyKeyword == \E word \in {"urgent", "asap", "immediate"} : Contains(TimelineText, word)
ShortDurationKeyword == \E word \in {"week", "days"} : Contains(TimelineText, word)

\* C31: the priority is high when the timeline text contains an urgency
\* keyword (urgent, asap, immediate), otherwise medium when it contains a
\* short-duration keyword (week, days), otherwise normal; a request with no
\* timeline gets normal, and urgency wins over short duration.
C31_PriorityFromTimeline ==
    Did("analyze_intent") =>
        findings.analysis.priority
            = IF UrgencyKeyword THEN "high"
              ELSE IF ShortDurationKeyword THEN "medium"
              ELSE "normal"

\* The analysis of a timeline with an urgency and a short-duration keyword.
C31_Witness ==
    /\ Did("analyze_intent")
    /\ UrgencyKeyword
    /\ ShortDurationKeyword
    /\ findings.analysis.priority = "high"

Listed(agent) ==
    Cardinality({k \in 1..Len(findings.analysis.required_agents) :
                    findings.analysis.required_agents[k] = agent})

\* C32: the required-worker list contains NavigatorAgent and ArchivistAgent,
\* ComplianceAgent exactly when compliance requirements are present,
\* CostAgent exactly when a budget is present, InfraAgent exactly when the
\* description mentions infrastructure or deployment, and ResearchAgent
\* exactly when the complexity is high, no worker being listed twice.
C32_RequiredWorkers ==
    Did("analyze_intent") =>
        /\ Listed("NavigatorAgent") = 1
        /\ Listed("ArchivistAgent") = 1
        /\ Listed("ComplianceAgent")
              = IF request.project_constraints.compliance_requirements # <<>> THEN 1 ELSE 0
        /\ Listed("CostAgent")
              = IF request.project_constraints.budget \notin {None, ""} THEN 1 ELSE 0
        /\ Listed("InfraAgent") = IF Mentions({"infrastructure", "deployment"}) THEN 1 ELSE 0
        /\ Listed("ResearchAgent")
              = IF findings.analysis.complexity_level = "high" THEN 1 ELSE 0
        /\ \A k \in 1..Len(findings.analysis.required_agents) :
               findings.analysis.required_agents[k]
                   \in {"NavigatorAgent", "ArchivistAgent", "ComplianceAgent", "CostAgent",
                        "InfraAgent", "ResearchAgent"}

\* An analysis that lists all six workers.
C32_Witness ==
    /\ Did("analyze_intent")
    /\ request.project_constraints.compliance_requirements # <<>>
    /\ request.project_constraints.budget = "50k"
    /\ Mentions({"infrastructure", "deployment"})
    /\ findings.analysis.complexity_level = "high"
    /\ Len(findings.analysis.required_agents) = 6

-----------------------------------------------------------------------------
(* Properties of the awaited-action labels (SpecCLI)                       *)

\* The awaited-action labels the Concierge attaches to its replies.
ConciergeLabels ==
    {"project_choice", "intake_form", "guided_intake_field", "process_comprehensive",
     "confirm_extraction", "select_existing_project", "handle_no_projects", "orchestrate",
     "greet"}

\* C33: every awaited-action label the Concierge attaches to a reply is,
\* fed back by the driver as the next turn's action, handled by a branch of
\* its own and not by the unknown-action branch: a turn at such a label
\* reaches a branch of process, and at every prompt every text makes the
\* driver send an action process has a branch for.
C33_AwaitedLabelsAccepted ==
    /\ last_turn.awaited \in ConciergeLabels => last_turn.action \in ConciergeActions
    /\ (cli_pc = "prompt" /\ last_response.next_action \in ConciergeLabels)
          => \A user_input \in UserInputs :
                 DriverAction(last_response.next_action, user_input) \in ConciergeActions

\* A turn at a label that process has a branch for: the intake form was
\* awaited and the guided mode chosen.
C33_Witness ==
    /\ last_turn.awaited = "intake_form"
    /\ last_turn.action = "intake_form"
    /\ ~last_turn.raised
    /\ last_turn.next_action = "guided_intake_field"

-----------------------------------------------------------------------------
(* Properties of the project a workflow run creates (SpecWorkflow)         *)

\* The run has returned success with a project_id.
ReturnedProject ==
    /\ wf_pc = "done"
    /\ wf_response.success
    /\ Get(wf_response.data, "project_id", None) # None

\* C34: after orchestrate_full_workflow returned success with a project_id
\* that is not null, the project is retrievable from storage by that
\* project_id, so that update_project_status for that id finds the
\* project.
C34_ProjectRetrievableById ==
    ReturnedProject =>
        /\ HasItem(db, "projects", wf_response.data.project_id)
        /\ ArchivistUpdateProjectStatus(
               ("project_id" :> wf_response.data.project_id) @@ ("status" :> "in_progress"),
               db, "none").resp.success

\* The run returned a project_id and the project it created is stored.
C34_Witness ==
    /\ ReturnedProject
    /\ \E id \in DOMAIN db.projects :
           db.projects[id].project_id = wf_response.data.project_id

-----------------------------------------------------------------------------
(* Properties of the interaction log (SpecOps)                             *)

\* log_interaction has just returned success=true.
InteractionLogged ==
    /\ op.agent = "ArchivistAgent"
    /\ op.ctx["action"] = "log_interaction"
    /\ ~op.raised
    /\ op.resp.success

\* C35: whenever log_interaction returns success=true for a session id, the
\* stored session record for that id exists and its conversation_history
\* ends with the logged entry, also when no session record existed for
\* that id before the call.
C35_LoggedInteractionIsStored ==
    InteractionLogged =>
        /\ HasItem(db, "chat_sessions", op.ctx["session_id"])
        /\ LET history == GetItem(db, "chat_sessions", op.ctx["session_id"]).conversation_history
           IN  /\ history # <<>>
               /\ history[Len(history)] = op.resp.data.log_entry

\* An interaction logged, with no I/O fault, for a stored session.
C35_Witness ==
    /\ InteractionLogged
    /\ op.fault = "none"
    /\ HasItem(op.db_before, "chat_sessions", op.ctx["session_id"])
    /\ LET history == GetItem(db, "chat_sessions", op.ctx["session_id"]).conversation_history
       IN  history = Append(GetItem(op.db_before, "chat_sessions",
                                    op.ctx["session_id"]).conversation_history,
                            op.resp.data.log_entry)

-----------------------------------------------------------------------------
(* Properties of the workers of a coordination run (SpecCoord)             *)

\* Entry k belongs to a run started through process with action
\* coordinate_agents for a use case that is stored.
ThroughProcess(k) ==
    /\ Get(given[k].context, "action", None) = "coordinate_agents"
    /\ Get(given[k].context, "use_case_id", None) \in DOMAIN db.use_cases

PersistenceFailureAt(k) ==
    coordination_results[k].message \in {"store_failed", "execution_failed"}

\* C36: in a coordination run started through process with action
\* coordinate_agents for an existing use case, NavigatorAgent is invoked
\* with a context whose action it recognizes: it performs its resource
\* search and, absent a persistence failure, its entry is successful.
C36_NavigatorSearchesInCoordination ==
    \A k \in 1..Len(coordination_results) :
        (ThroughProcess(k) /\ given[k].agent = "NavigatorAgent" /\ ~PersistenceFailureAt(k))
            => /\ coordination_results[k].success
               /\ "resource_matches" \in DOMAIN coordination_results[k].data

\* NavigatorAgent has answered in a run started through process.
C36_Witness ==
    \E k \in 1..Len(coordination_results) :
        /\ ThroughProcess(k)
        /\ given[k].agent = "NavigatorAgent"
        /\ coordination_results[k].agent = "NavigatorAgent"
        /\ ~PersistenceFailureAt(k)

\* The entries of the workers that are not implemented.
Unimplemented(agent) == agent \notin {"NavigatorAgent", "ArchivistAgent"}

-----------------------------------------------------------------------------
(* Properties of the workflow summary (SpecWorkflow)                       *)

\* The run has ended after its archival step wrote the summary.
SummaryWritten ==
    /\ wf_pc = "done"
    /\ Performed("log_workflow")
    /\ ~archive_outcome.raised
    /\ archive_outcome.resp.success

AllStepsSucceeded ==
    analysis_result.success /\ navigator_result.success /\ project_result.success

\* C37: the workflow summary written by log_workflow has
\* overall_success=true exactly when every step in workflow_results
\* succeeded; the summary logged at the end of a run whose analysis,
\* navigation and project creation all succeeded has overall_success=true.
C37_OverallSuccessIffAllSteps ==
    SummaryWritten =>
        /\ HasItem(db, "workflow_logs", wf_use_case_id)
        /\ GetItem(db, "workflow_logs", wf_use_case_id).overall_success = AllStepsSucceeded

\* A summary was written for a run whose three steps succeeded.
C37_Witness ==
    /\ SummaryWritten
    /\ AllStepsSucceeded
    /\ DOMAIN GetItem(db, "workflow_logs", wf_use_case_id).steps_completed
          = {"analysis", "navigation", "project_creation"}

-----------------------------------------------------------------------------
(* Properties of the project's flags (SpecProjects)                        *)

\* C38: after any sequence of update_project_status operations on a
\* project, its archived flag is true exactly when its current phase is
\* 'archived', and promoted_to_resource_catalog is true exactly when its
\* current phase is 'promoted'.
C38_FlagsFollowPhase ==
    \A id \in DOMAIN db.projects :
        /\ db.projects[id].archived = (db.projects[id].current_phase = "archived")
        /\ db.projects[id].promoted_to_resource_catalog
              = (db.projects[id].current_phase = "promoted")

\* update_project_status has just moved the project to the phase archived.
C38_Witness ==
    /\ op.agent = "ArchivistAgent"
    /\ op.ctx["action"] = "update_project_status"
    /\ ~op.raised
    /\ op.resp.success
    /\ op.resp.data.new_phase = "archived"
    /\ db.projects["uc1"].current_phase = "archived"
    /\ db.projects["uc1"].archived

====
